---- MODULE Spec2Model ----
(***************************************************************************)
(* State-synchronisation core of the autopilot desktop client:             *)
(*   - the zustand store (src/src/utils/polymorphic.ts): terminal sessions *)
(*     per worktree, the repository registry, the PR data cache;           *)
(*   - the git watcher hook (src/src/hooks/useGitWatcher.ts): debounced    *)
(*     refreshes driven by push events;                                    *)
(*   - the code review hook (src/src/hooks/useCodeReview.ts): the diff     *)
(*     cache and its loader.                                               *)
(* Every awaited collaborator call is split into the step that issues it   *)
(* and the step that continues after it resolved or rejected; steps of     *)
(* different calls interleave freely (single-threaded event loop).         *)
(***************************************************************************)
EXTENDS Integers, Sequences, FiniteSets, Bags, TLC

VARIABLES
    \* ---- store: terminal sessions (polymorphic.ts) ----
    selectedWorktree,        \* WorktreeInfo | null (NoWorktree)
    terminalsByWorktree,     \* Record<string, WorktreeTerminals>: a function on the keys present
    currentTerminals,        \* TerminalInstance[]
    currentActiveTerminalId, \* string | null
    \* ---- collaborator (terminal backend) and calls in flight ----
    spawnsInFlight,          \* bag of awaited spawn calls, each with the locals its continuation holds
    nextTerminalId,          \* the id the backend returns from the next successful spawn
    closePending,            \* number of dispatched close_terminal calls not yet settled
    \* ---- store: repository registry (polymorphic.ts) ----
    repositories,            \* Repository[]
    persistedPaths,          \* repositoryPaths of the settings document
    savesInFlight,           \* savePersistedState calls not yet settled, oldest first
    registryCalls,           \* bag of awaited registry calls with their locals
    gitWorktrees,            \* collaborator: the worktrees git has for each repository
    lastOp,                  \* the operation whose step was just taken, and what the step
                             \* handed to its caller
    scope,                   \* which part of the store the behaviour exercises
    \* ---- time ----
    now,                     \* milliseconds on the clock of Date.now() and setTimeout
    clockSteps,              \* how many times the clock has been advanced
    \* ---- useGitWatcher (useGitWatcher.ts) ----
    watcherMounted,          \* the listeners are subscribed and their closure's mounted is true
    pendingBranchUpdates,    \* Map<string, Timeout>: worktree path -> timer
    pendingWorktreeUpdates,  \* Map<string, Timeout>: repository path -> timer
    timers,                  \* the timers setTimeout has armed and nothing has cleared
    callsSinceEvent,         \* per (kind, key): store calls made since the last event for it
    \* ---- store: PR data cache (polymorphic.ts) ----
    prDataCache,             \* Record<string, PRDataCacheEntry>: a function on the keys present
    lastRead,                \* the last getPRDataCache call and what it returned
    suppliedAt,              \* history: per cache key, when each field was last given to setPRDataCache
    \* ---- useCodeReview (useCodeReview.ts) ----
    diffCache,               \* Record<string, FileDiffData>: a function on the keys present
    loadingDiffs,            \* Set<string>
    renderedDiffCache,       \* diffCache as the closure of the latest render holds it
    renderedLoadingDiffs,    \* loadingDiffs as the closure of the latest render holds it
    diffFetches,             \* bag of awaited get_file_diff calls
    worktreePathRef,         \* worktreePathRef.current: the worktreePath of the latest render
    inFlightAtClear,         \* history: the awaited calls that were in flight at a setDiffCache({})
    changedFiles,            \* ChangedFile[]: the paths of the listing
    isLoading,               \* a listing fetch is under way
    error,                   \* string | null: the failure of the last listing fetch
    listingFetches,          \* number of awaited listing calls
    changedFilesDirty,       \* setChangedFiles ran since the last render
    effectsPending,          \* a dependency of the loader's effect changed since the last render
    \* ---- DiffTab / DiffOverlay: the background diff loader ----
    loadingQueueRef,         \* string[]: paths still to load
    isLoadingRef,            \* boolean: a loadNext chain is awaiting loadDiff
    loaderIssued,            \* the last fetch the loader issued, and the state it met
    \* ---- store: PR status, and usePRStatusPolling (usePRStatus.ts) ----
    ghCliAvailable,          \* githubSettings.ghCliAvailable
    prStatusByBranch,        \* Record<string, Record<string, PRStatus>>: functions on the keys present
    cliChecksInFlight,       \* number of checkGitHubCli calls awaiting the collaborator
    pollMounted,             \* the component that calls usePRStatusPolling is mounted
    fetchAllPRs,             \* what the fetchAllPRs of the latest render closes over
    isFetchingRef,           \* boolean: a batch poll is awaited
    pollingRef,              \* the id setInterval returned last, 0 before the first
    pollIntervals,           \* the intervals that are armed, each with the callback it runs
    pollsInFlight,           \* bag of awaited get_all_prs_for_repos calls
    results,                 \* what the last resolved poll answered (fetchAllPRs' results)
    \* ---- store: start-up (polymorphic.ts) ----
    isInitialized,           \* boolean
    initializeCalls,         \* bag of initialize() calls at an await, each with its locals
    \* ---- useGitWatcher: subscriptions and watch registration ----
    renderedInitialized,     \* isInitialized as the latest render of the hook read it
    repoWorktreeSignature,   \* the useMemo value of the latest render
    startWatching,           \* the start_watching_repository calls the latest effect run issued
    unlistenHeadRef,         \* the id of the subscription it holds, 0 for null
    unlistenWorktreeRef,     \* the id of the subscription it holds, 0 for null
    subscriptions,           \* the live subscriptions of the event bus
    listenCalls              \* bag of setupListeners() calls awaiting listen(...)

sessionVars == <<selectedWorktree, terminalsByWorktree, currentTerminals,
                 currentActiveTerminalId>>
backendVars == <<spawnsInFlight, nextTerminalId, closePending>>
registryVars == <<repositories, persistedPaths, savesInFlight, registryCalls,
                  gitWorktrees>>
clockVars == <<now, clockSteps>>
watcherVars == <<watcherMounted, pendingBranchUpdates, pendingWorktreeUpdates, timers,
                 callsSinceEvent>>
cacheVars == <<prDataCache, lastRead, suppliedAt>>
diffVars == <<diffCache, loadingDiffs, renderedDiffCache, renderedLoadingDiffs,
              diffFetches, worktreePathRef, inFlightAtClear>>
listingVars == <<changedFiles, isLoading, error, listingFetches, changedFilesDirty,
                 effectsPending>>
loaderVars == <<loadingQueueRef, isLoadingRef, loaderIssued>>
pollVars == <<ghCliAvailable, prStatusByBranch, cliChecksInFlight, pollMounted,
              fetchAllPRs, isFetchingRef, pollingRef, pollIntervals, pollsInFlight,
              results>>
startupVars == <<isInitialized, initializeCalls>>
lifecycleVars == <<renderedInitialized, repoWorktreeSignature, startWatching,
                   unlistenHeadRef, unlistenWorktreeRef, subscriptions, listenCalls>>
vars == <<selectedWorktree, terminalsByWorktree, currentTerminals,
          currentActiveTerminalId, spawnsInFlight, nextTerminalId,
          closePending, repositories, persistedPaths, savesInFlight,
          registryCalls, gitWorktrees, lastOp, scope, now, clockSteps,
          watcherMounted, pendingBranchUpdates, pendingWorktreeUpdates, timers,
          callsSinceEvent, prDataCache, lastRead, suppliedAt, diffCache, loadingDiffs,
          renderedDiffCache, renderedLoadingDiffs, diffFetches, worktreePathRef,
          inFlightAtClear, changedFiles,
          isLoading, error, listingFetches, changedFilesDirty, effectsPending,
          loadingQueueRef, isLoadingRef, loaderIssued, ghCliAvailable,
          prStatusByBranch, cliChecksInFlight, pollMounted, fetchAllPRs,
          isFetchingRef, pollingRef, pollIntervals, pollsInFlight, results,
          isInitialized, initializeCalls, renderedInitialized,
          repoWorktreeSignature, startWatching, unlistenHeadRef, unlistenWorktreeRef,
          subscriptions, listenCalls>>

----------------------------------------------------------------------------
\* Bounds of the model

\* terminals the backend spawns in one behaviour (in flight or alive)
MaxTerminals == 3

\* close_terminal calls that may be unsettled at once
MaxPendingCloses == 1

\* worktree paths the user can select
WorktreePaths == {"wA", "wB"}

\* commands handed to addTerminalWithCommand
Commands == {"opencode"}

\* awaited registry calls (discover, list, create, delete) in flight at once
MaxRegistryCalls == 2

\* savePersistedState calls unsettled at once
MaxPendingSaves == 1

\* repositories known to the collaborator
RepoPaths == {"r1", "r2"}

\* null of a string-valued field
NULL == "null"

\* null of a terminal id (ids handed out by the backend start at 1)
NullId == 0

\* the results of a poll, when none has resolved yet
NoResults == [r \in {} |-> {}]

\* selectedWorktree: null
NoWorktree == [path |-> NULL, branch |-> NULL]

\* a timer handle that is not one (Map.get of a key that is absent)
NoTimer == [kind |-> NULL, key |-> NULL, due |-> 0]

\* checksResult / prDetails: undefined (the caller did not pass the field)
UNDEFINED == "undefined"

\* state.prDataCache[key]: undefined
NoEntry == [checksResult |-> UNDEFINED, prDetails |-> UNDEFINED, lastUpdated |-> 0]

\* history of a cache key none of whose fields was given to setPRDataCache
NeverSupplied == [checksResult |-> -1, prDetails |-> -1]

\* no getPRDataCache call has been made yet
NoRead == [key |-> <<>>, result |-> NoEntry]

\* history of a (kind, key) for which no event has been handled
NoBurst == [at |-> 0, events |-> 0, calls |-> 0, quiet |-> 0]

\* the loader has issued no fetch yet
NoIssue == [path |-> NULL, cached |-> FALSE, loading |-> FALSE]

\* diffCache[path]: undefined
NoDiff == [path |-> NULL, patch |-> NULL]

\* WorktreeInfo values handed to selectWorktree (types/index.ts)
WorktreeInputs == {[path |-> p, branch |-> "main"] : p \in WorktreePaths}

\* collaborator, discover_repository: the info of the repository at path
DiscoverInfo(path) == [path |-> path]

\* collaborator: the worktrees of each repository when the program starts
InitialGitWorktrees ==
    [r \in RepoPaths |->
        IF r = "r1" THEN <<[path |-> "wA", branch |-> "main"]>>
        ELSE <<[path |-> "wC", branch |-> "main"]>>]

\* collaborator, create_worktree_auto: the worktree it creates for a repository
\* (one generated name per behaviour, and only r1 has room for it)
AutoWorktree(repoPath) == [path |-> "wB", branch |-> "auto"]

\* worktree names handed to deleteWorktree (a worktree is named by its path here)
WorktreeNames == {"wB"}

\* ids the backend has returned so far
SpawnedIds == 1..(nextTerminalId - 1)

\* lastOp: the operation and the outcome of its step
\*   "noop"     returned early without touching anything
\*   "done"     ran to its end synchronously
\*   "null"     returned null
\*   "pending"  issued a collaborator call and is awaiting it
\*   "resolved" continued after the awaited call and returned
\*   "error"    the awaited call rejected and the rejection reached the caller
\*   "logged"   a fire-and-forget call rejected and was only logged
Op(name, out) == [op |-> name, out |-> out]

\* a step of a terminal-session operation: the registry is not touched
SessionOp(name, out) ==
    /\ lastOp' = Op(name, out)
    /\ UNCHANGED <<registryVars, scope, clockVars, watcherVars, cacheVars, diffVars,
                   listingVars, loaderVars, pollVars, startupVars,
                   lifecycleVars>>

\* a step of a registry operation: the terminal sessions are not touched
RegistryOp(name, out) ==
    /\ lastOp' = Op(name, out)
    /\ UNCHANGED <<terminalsByWorktree, currentTerminals, currentActiveTerminalId,
                   backendVars, scope, clockVars, watcherVars, cacheVars, diffVars,
                   listingVars, loaderVars, pollVars, startupVars,
                   lifecycleVars>>

----------------------------------------------------------------------------
\* Helpers

\* state.currentTerminals.filter((t) => t.id !== terminalId)
FilterOutTerminal(terms, terminalId) ==
    LET Keep(t) == t.id # terminalId IN SelectSeq(terms, Keep)

\* newTerminals[newTerminals.length - 1]?.id || null
LastIdOrNull(terms) ==
    IF Len(terms) = 0 THEN NullId ELSE terms[Len(terms)].id

\* const terminal: TerminalInstance = { id, worktreePath: worktree.path, ... }
TerminalInstance(id, worktree) ==
    [id |-> id, worktreePath |-> worktree.path]

TerminalIdsOf(terms) == {terms[i].id : i \in 1..Len(terms)}

\* { ...state.terminalsByWorktree, [path]: entry }
PutEntry(byWorktree, path, entry) ==
    [p \in (DOMAIN byWorktree) \cup {path} |->
        IF p = path THEN entry ELSE byWorktree[p]]

\* invoke('spawn_terminal' | 'spawn_terminal_with_command', ...): the call is in
\* flight until the backend answers; the continuation keeps `worktree`
IssueSpawn(opName, worktree, command) ==
    /\ (nextTerminalId - 1) + BagCardinality(spawnsInFlight) < MaxTerminals
    /\ spawnsInFlight' = spawnsInFlight (+)
          SetToBag({[op |-> opName, worktree |-> worktree, command |-> command]})
    /\ SessionOp(opName, "pending")
    /\ UNCHANGED <<nextTerminalId, closePending>>

\* the backend answers the call c with a fresh terminal_id
SpawnResolved(c) ==
    /\ BagIn(c, spawnsInFlight)
    /\ spawnsInFlight' = spawnsInFlight (-) SetToBag({c})
    /\ nextTerminalId' = nextTerminalId + 1
    /\ UNCHANGED closePending

----------------------------------------------------------------------------
\* Initial state: the store as constructed by create<AppStore>(...)

\* no worktree selected, no terminal, no PR data, nothing in flight
SessionsCreated ==
    /\ selectedWorktree = NoWorktree
    /\ terminalsByWorktree = [p \in {} |-> NoWorktree]
    /\ currentTerminals = <<>>
    /\ currentActiveTerminalId = NullId
    /\ spawnsInFlight = EmptyBag
    /\ nextTerminalId = 1
    /\ closePending = 0
    /\ prDataCache = [k \in {} |-> NoEntry]
    /\ lastRead = NoRead
    /\ suppliedAt = [k \in {} |-> NeverSupplied]
    /\ now = 0
    /\ clockSteps = 0

StoreCreated ==
    /\ SessionsCreated
    /\ repositories = <<>>
    /\ persistedPaths = <<>>
    /\ savesInFlight = <<>>
    /\ registryCalls = EmptyBag
    /\ gitWorktrees = InitialGitWorktrees
    /\ isInitialized = FALSE
    /\ initializeCalls = EmptyBag
    /\ lastOp = Op("create", "done")

\* useGitWatcher has armed no timer: useRef(new Map())
WatcherIdle ==
    /\ pendingBranchUpdates = [k \in {} |-> NoTimer]
    /\ pendingWorktreeUpdates = [k \in {} |-> NoTimer]
    /\ timers = {}
    /\ callsSinceEvent = [k \in {} |-> NoBurst]

\* useGitWatcher holds no subscription and has registered nothing
WatchingIdle ==
    /\ renderedInitialized = FALSE
    /\ repoWorktreeSignature = <<>>
    /\ startWatching = {}
    /\ unlistenHeadRef = 0
    /\ unlistenWorktreeRef = 0
    /\ subscriptions = {}
    /\ listenCalls = EmptyBag

\* useCodeReview has loaded nothing: useState({}) and useState(new Set())
\* the worktree the hook was handed (worktreePathRef.current)
ReviewedWorktree == "wA"

CodeReviewIdle ==
    /\ diffCache = [k \in {} |-> NoDiff]
    /\ loadingDiffs = {}
    /\ renderedDiffCache = [k \in {} |-> NoDiff]
    /\ renderedLoadingDiffs = {}
    /\ diffFetches = EmptyBag
    /\ worktreePathRef = ReviewedWorktree
    /\ inFlightAtClear = EmptyBag

\* the listing of useCodeReview before its first fetch, and the loader's refs:
\* useState([]), useState(false), useState(null), useRef([]), useRef(false)
ListingIdle ==
    /\ changedFiles = <<>>
    /\ isLoading = FALSE
    /\ error = NULL
    /\ listingFetches = 0
    /\ changedFilesDirty = FALSE
    /\ effectsPending = FALSE

LoaderIdle ==
    /\ loadingQueueRef = <<>>
    /\ isLoadingRef = FALSE
    /\ loaderIssued = NoIssue

\* githubSettings: DEFAULT_GITHUB_SETTINGS, prStatusByBranch: {}, and the refs
\* of usePRStatusPolling before its component is mounted
PollIdle ==
    /\ ghCliAvailable = FALSE
    /\ prStatusByBranch = [r \in {} |-> [b \in {} |-> NULL]]
    /\ cliChecksInFlight = 0
    /\ pollMounted = FALSE
    /\ fetchAllPRs = [repositories |-> <<>>, ghCliAvailable |-> FALSE]
    /\ isFetchingRef = FALSE
    /\ pollingRef = 0
    /\ pollIntervals = {}
    /\ pollsInFlight = EmptyBag
    /\ results = NoResults

\* no hook is mounted
HooksUnmounted ==
    /\ watcherMounted = FALSE
    /\ WatcherIdle
    /\ CodeReviewIdle
    /\ ListingIdle
    /\ LoaderIdle
    /\ PollIdle
    /\ WatchingIdle

Init ==
    /\ StoreCreated
    /\ HooksUnmounted
    /\ scope = "store"

----------------------------------------------------------------------------
\* selectWorktree

\* mutant: the early return is missing, so selecting the selected worktree runs
\* the rest of selectWorktree
SelectWorktreeWithoutEarlyReturn(worktree) ==
    /\ selectedWorktree.path = worktree.path
    /\ IF /\ worktree.path \in DOMAIN terminalsByWorktree
          /\ Len(terminalsByWorktree[worktree.path].terminals) > 0
       THEN /\ selectedWorktree' = worktree
            /\ currentTerminals' = terminalsByWorktree[worktree.path].terminals
            /\ currentActiveTerminalId' =
                  terminalsByWorktree[worktree.path].activeTerminalId
            /\ SessionOp("selectWorktree", "done")
            /\ UNCHANGED <<terminalsByWorktree, backendVars>>
       ELSE /\ IssueSpawn("selectWorktree", worktree, NULL)
            /\ UNCHANGED sessionVars

\* if (state.selectedWorktree?.path === worktree.path) return;
SelectWorktreeAlreadySelected(worktree) ==
    /\ selectedWorktree.path = worktree.path
    /\ SessionOp("selectWorktree", "noop")
    /\ UNCHANGED <<sessionVars, backendVars>>

\* mutant: switching back activates the last session instead of the stored one
SelectWorktreeExistingActivatesLast(worktree) ==
    /\ selectedWorktree.path # worktree.path
    /\ worktree.path \in DOMAIN terminalsByWorktree
    /\ Len(terminalsByWorktree[worktree.path].terminals) > 0
    /\ selectedWorktree' = worktree
    /\ currentTerminals' = terminalsByWorktree[worktree.path].terminals
    /\ currentActiveTerminalId' =
          LastIdOrNull(terminalsByWorktree[worktree.path].terminals)
    /\ SessionOp("selectWorktree", "done")
    /\ UNCHANGED <<terminalsByWorktree, backendVars>>

\* if (existing && existing.terminals.length > 0) { set({...}); return; }
SelectWorktreeExisting(worktree) ==
    /\ selectedWorktree.path # worktree.path
    /\ worktree.path \in DOMAIN terminalsByWorktree
    /\ Len(terminalsByWorktree[worktree.path].terminals) > 0
    /\ selectedWorktree' = worktree
    /\ currentTerminals' = terminalsByWorktree[worktree.path].terminals
    /\ currentActiveTerminalId' = terminalsByWorktree[worktree.path].activeTerminalId
    /\ SessionOp("selectWorktree", "done")
    /\ UNCHANGED <<terminalsByWorktree, backendVars>>

\* const result = await invoke('spawn_terminal', { cwd: worktree.path, ... })
SelectWorktreeSpawn(worktree) ==
    /\ selectedWorktree.path # worktree.path
    /\ \/ worktree.path \notin DOMAIN terminalsByWorktree
       \/ /\ worktree.path \in DOMAIN terminalsByWorktree
          /\ Len(terminalsByWorktree[worktree.path].terminals) = 0
    /\ IssueSpawn("selectWorktree", worktree, NULL)
    /\ UNCHANGED sessionVars

SelectWorktree(worktree) ==
    \/ SelectWorktreeAlreadySelected(worktree)
    \/ SelectWorktreeExisting(worktree)
    \/ SelectWorktreeSpawn(worktree)

\* mutant: the continuation files the session under the worktree selected
\* when the spawn resolves instead of the one it was called with
SelectWorktreeResolveUnderSelected(c) ==
    /\ c.op = "selectWorktree"
    /\ LET terminal == TerminalInstance(nextTerminalId, c.worktree)
           path == IF selectedWorktree = NoWorktree THEN c.worktree.path
                   ELSE selectedWorktree.path IN
       /\ selectedWorktree' = c.worktree
       /\ currentTerminals' = <<terminal>>
       /\ currentActiveTerminalId' = terminal.id
       /\ terminalsByWorktree' =
             PutEntry(terminalsByWorktree, path,
                 [terminals |-> <<terminal>>, activeTerminalId |-> terminal.id])
    /\ SpawnResolved(c)
    /\ SessionOp("selectWorktree", "resolved")

\* the continuation of selectWorktree after the spawn resolved
SelectWorktreeResolve(c) ==
    /\ c.op = "selectWorktree"
    /\ LET terminal == TerminalInstance(nextTerminalId, c.worktree) IN
       /\ selectedWorktree' = c.worktree
       /\ currentTerminals' = <<terminal>>
       /\ currentActiveTerminalId' = terminal.id
       /\ terminalsByWorktree' =
             PutEntry(terminalsByWorktree, c.worktree.path,
                 [terminals |-> <<terminal>>, activeTerminalId |-> terminal.id])
    /\ SpawnResolved(c)
    /\ SessionOp("selectWorktree", "resolved")

----------------------------------------------------------------------------
\* addTerminal / addTerminalWithCommand

\* const worktree = state.selectedWorktree; if (!worktree) return null;
AddTerminal ==
    \/ /\ selectedWorktree = NoWorktree
       /\ SessionOp("addTerminal", "null")
       /\ UNCHANGED <<sessionVars, backendVars>>
    \/ /\ selectedWorktree # NoWorktree
       /\ IssueSpawn("addTerminal", selectedWorktree, NULL)
       /\ UNCHANGED sessionVars

AddTerminalWithCommand(command) ==
    \/ /\ selectedWorktree = NoWorktree
       /\ SessionOp("addTerminalWithCommand", "null")
       /\ UNCHANGED <<sessionVars, backendVars>>
    \/ /\ selectedWorktree # NoWorktree
       /\ IssueSpawn("addTerminalWithCommand", selectedWorktree, command)
       /\ UNCHANGED sessionVars

\* set((state) => { const newTerminals = [...state.currentTerminals, terminal]; ... })
AppendTerminal(c) ==
    LET terminal == TerminalInstance(nextTerminalId, c.worktree)
        newTerminals == Append(currentTerminals, terminal)
    IN
    /\ currentTerminals' = newTerminals
    /\ currentActiveTerminalId' = terminal.id
    /\ terminalsByWorktree' =
          PutEntry(terminalsByWorktree, c.worktree.path,
              [terminals |-> newTerminals, activeTerminalId |-> terminal.id])
    /\ UNCHANGED selectedWorktree

\* the continuation of addTerminal after the spawn resolved; returns terminal.id
AddTerminalResolve(c) ==
    /\ c.op = "addTerminal"
    /\ AppendTerminal(c)
    /\ SpawnResolved(c)
    /\ SessionOp("addTerminal", "resolved")

AddTerminalWithCommandResolve(c) ==
    /\ c.op = "addTerminalWithCommand"
    /\ AppendTerminal(c)
    /\ SpawnResolved(c)
    /\ SessionOp("addTerminalWithCommand", "resolved")

\* the awaited spawn rejects: none of the three operations catches, the
\* rejection reaches the caller and the continuation never runs
SpawnReject(c) ==
    /\ BagIn(c, spawnsInFlight)
    /\ spawnsInFlight' = spawnsInFlight (-) SetToBag({c})
    /\ SessionOp(c.op, "error")
    /\ UNCHANGED <<sessionVars, nextTerminalId, closePending>>

----------------------------------------------------------------------------
\* removeTerminal / setActiveTerminal

\* the set((state) => ...) of removeTerminal
RemoveFromCurrent(terminalId) ==
    LET newTerminals == FilterOutTerminal(currentTerminals, terminalId)
        newActiveId == IF currentActiveTerminalId = terminalId
                       THEN LastIdOrNull(newTerminals)
                       ELSE currentActiveTerminalId
    IN
    /\ currentTerminals' = newTerminals
    /\ currentActiveTerminalId' = newActiveId
    /\ terminalsByWorktree' =
          PutEntry(terminalsByWorktree, selectedWorktree.path,
              [terminals |-> newTerminals, activeTerminalId |-> newActiveId])
    /\ UNCHANGED selectedWorktree

\* mutant: the local removal waits for close_terminal instead of being applied
\* in the step that dispatches it
RemoveTerminalAwaitingClose(terminalId) ==
    /\ closePending < MaxPendingCloses
    /\ closePending' = closePending + 1
    /\ SessionOp("removeTerminal", "pending")
    /\ UNCHANGED <<sessionVars, spawnsInFlight, nextTerminalId>>

RemoveTerminal(terminalId) ==
    \* invoke('close_terminal', { terminalId }).catch(console.error);
    /\ closePending < MaxPendingCloses
    /\ closePending' = closePending + 1
    /\ IF selectedWorktree = NoWorktree
       THEN UNCHANGED sessionVars
       ELSE RemoveFromCurrent(terminalId)
    /\ SessionOp("removeTerminal", "done")
    /\ UNCHANGED <<spawnsInFlight, nextTerminalId>>

\* close_terminal settles; a rejection is only logged by .catch(console.error)
CloseSettle(ok) ==
    /\ closePending > 0
    /\ closePending' = closePending - 1
    /\ SessionOp("close_terminal", IF ok THEN "resolved" ELSE "logged")
    /\ UNCHANGED <<sessionVars, spawnsInFlight, nextTerminalId>>

\* { ...state.terminalsByWorktree[worktree.path], activeTerminalId: terminalId }
\* (spreading an absent entry leaves no terminals field: modelled as no terminals)
SpreadEntry(byWorktree, path, terminalId) ==
    [terminals |-> IF path \in DOMAIN byWorktree THEN byWorktree[path].terminals ELSE <<>>,
     activeTerminalId |-> terminalId]

SetActiveTerminal(terminalId) ==
    /\ IF selectedWorktree = NoWorktree
       THEN UNCHANGED sessionVars
       ELSE /\ currentActiveTerminalId' = terminalId
            /\ terminalsByWorktree' =
                  PutEntry(terminalsByWorktree, selectedWorktree.path,
                      SpreadEntry(terminalsByWorktree, selectedWorktree.path, terminalId))
            /\ UNCHANGED <<selectedWorktree, currentTerminals>>
    /\ SessionOp("setActiveTerminal", "done")
    /\ UNCHANGED backendVars

----------------------------------------------------------------------------
\* Repository registry

PathsOf(repos) == [i \in 1..Len(repos) |-> repos[i].path]

WorktreePathsOf(worktrees) == {worktrees[i].path : i \in 1..Len(worktrees)}

\* [...state.repositories.filter((r) => r.info.path !== info.path), { info, worktrees }]
UpsertRepository(repos, infoPath, worktrees) ==
    LET Other(r) == r.path # infoPath
    IN  Append(SelectSeq(repos, Other), [path |-> infoPath, worktrees |-> worktrees])

\* mutant: the new worktree array is written into every repository
ReplaceWorktreesEverywhere(repos, repoPath, worktrees) ==
    [i \in 1..Len(repos) |-> [path |-> repos[i].path, worktrees |-> worktrees]]

\* state.repositories.map((r) => r.info.path === repoPath ? { ...r, worktrees } : r)
ReplaceWorktrees(repos, repoPath, worktrees) ==
    [i \in 1..Len(repos) |->
        IF repos[i].path = repoPath
        THEN [path |-> repos[i].path, worktrees |-> worktrees]
        ELSE repos[i]]

\* savePersistedState({ repositoryPaths }): dispatched, not awaited
SavePersistedState(paths) ==
    /\ Len(savesInFlight) < MaxPendingSaves
    /\ savesInFlight' = Append(savesInFlight, paths)

\* store.set + store.save settle; a failure is caught and logged (lines 119-121)
SaveSettle(ok) ==
    /\ savesInFlight # <<>>
    /\ savesInFlight' = Tail(savesInFlight)
    /\ persistedPaths' = IF ok THEN Head(savesInFlight) ELSE persistedPaths
    /\ RegistryOp("savePersistedState", IF ok THEN "resolved" ELSE "logged")
    /\ UNCHANGED <<selectedWorktree, repositories, registryCalls, gitWorktrees>>

RegistryCall(opName, phase, path, arg) ==
    [op |-> opName, phase |-> phase, path |-> path, arg |-> arg]

\* invoke(...) of an operation's first await: the call is in flight
EnterFlight(c) ==
    /\ BagCardinality(registryCalls) < MaxRegistryCalls
    /\ registryCalls' = registryCalls (+) SetToBag({c})

\* an operation reaches its first await
IssueRegistryCall(c) ==
    /\ EnterFlight(c)
    /\ RegistryOp(c.op, "pending")
    /\ UNCHANGED <<selectedWorktree, repositories, persistedPaths, savesInFlight,
                   gitWorktrees>>

\* an awaited call resolved and the operation reached its next await
NextRegistryCall(c, d) ==
    /\ registryCalls' = (registryCalls (-) SetToBag({c})) (+) SetToBag({d})
    /\ RegistryOp(c.op, "pending")

\* const info = await invoke('discover_repository', { path })
AddRepository(path) ==
    IssueRegistryCall(RegistryCall("addRepository", "discover", path, NULL))

\* mutant: the repository is entered into the registry as soon as it is
\* discovered, before its worktrees are listed
AddRepositoryDiscoveredEntersEarly(c) ==
    /\ BagIn(c, registryCalls)
    /\ c.op = "addRepository" /\ c.phase = "discover"
    /\ NextRegistryCall(c, RegistryCall(c.op, "list", DiscoverInfo(c.path).path, NULL))
    /\ repositories' = UpsertRepository(repositories, DiscoverInfo(c.path).path, <<>>)
    /\ UNCHANGED <<selectedWorktree, persistedPaths, savesInFlight, gitWorktrees>>

\* const worktrees = await invoke('list_worktrees', { repoPath: info.path })
AddRepositoryDiscovered(c) ==
    /\ BagIn(c, registryCalls)
    /\ c.op = "addRepository" /\ c.phase = "discover"
    /\ NextRegistryCall(c, RegistryCall(c.op, "list", DiscoverInfo(c.path).path, NULL))
    /\ UNCHANGED <<selectedWorktree, repositories, persistedPaths, savesInFlight,
                   gitWorktrees>>

\* set((state) => { const newRepos = ...; savePersistedState(...); return {...} })
AddRepositoryListed(c) ==
    /\ BagIn(c, registryCalls)
    /\ c.op = "addRepository" /\ c.phase = "list"
    /\ LET newRepos == UpsertRepository(repositories, c.path, gitWorktrees[c.path])
       IN  /\ SavePersistedState(PathsOf(newRepos))
           /\ repositories' = newRepos
    /\ registryCalls' = registryCalls (-) SetToBag({c})
    /\ RegistryOp(c.op, "resolved")
    /\ UNCHANGED <<selectedWorktree, persistedPaths, gitWorktrees>>

\* removeRepository
RemoveRepository(path) ==
    /\ LET Other(r) == r.path # path
           newRepos == SelectSeq(repositories, Other)
       IN  /\ SavePersistedState(PathsOf(newRepos))
           /\ repositories' = newRepos
    /\ RegistryOp("removeRepository", "done")
    /\ UNCHANGED <<selectedWorktree, persistedPaths, registryCalls, gitWorktrees>>

\* refreshWorktrees: const worktrees = await invoke('list_worktrees', { repoPath })
RefreshWorktrees(repoPath) ==
    IssueRegistryCall(RegistryCall("refreshWorktrees", "list", repoPath, NULL))

\* the set(...) of refreshWorktrees, reached directly or through
\* `await get().refreshWorktrees(repoPath)` in createWorktreeAuto / deleteWorktree
WorktreesListed(c) ==
    /\ BagIn(c, registryCalls)
    /\ c.op \in {"refreshWorktrees", "createWorktreeAuto", "deleteWorktree"}
    /\ c.phase = "list"
    /\ repositories' = ReplaceWorktrees(repositories, c.path, gitWorktrees[c.path])
    /\ registryCalls' = registryCalls (-) SetToBag({c})
    /\ RegistryOp(c.op, "resolved")
    /\ UNCHANGED <<selectedWorktree, persistedPaths, savesInFlight, gitWorktrees>>

\* createWorktreeAuto: await invoke('create_worktree_auto', { repoPath })
CreateWorktreeAuto(repoPath) ==
    IssueRegistryCall(RegistryCall("createWorktreeAuto", "create", repoPath, NULL))

\* the collaborator created the worktree; await get().refreshWorktrees(repoPath)
WorktreeCreated(c) ==
    /\ BagIn(c, registryCalls)
    /\ c.op = "createWorktreeAuto" /\ c.phase = "create"
    /\ c.path = "r1"
    /\ AutoWorktree(c.path).path \notin WorktreePathsOf(gitWorktrees[c.path])
    /\ gitWorktrees' = [gitWorktrees EXCEPT ![c.path] = Append(@, AutoWorktree(c.path))]
    /\ NextRegistryCall(c, RegistryCall(c.op, "list", c.path, AutoWorktree(c.path).path))
    /\ UNCHANGED <<selectedWorktree, repositories, persistedPaths, savesInFlight>>

\* deleteWorktree: await invoke('delete_worktree', { repoPath, worktreeName, force: true })
DeleteWorktree(repoPath, worktreeName) ==
    IssueRegistryCall(RegistryCall("deleteWorktree", "delete", repoPath, worktreeName))

\* the collaborator deleted the worktree; await get().refreshWorktrees(repoPath)
WorktreeDeleted(c) ==
    /\ BagIn(c, registryCalls)
    /\ c.op = "deleteWorktree" /\ c.phase = "delete"
    /\ c.arg \in WorktreePathsOf(gitWorktrees[c.path])
    /\ LET Other(wt) == wt.path # c.arg
       IN  gitWorktrees' = [gitWorktrees EXCEPT ![c.path] = SelectSeq(@, Other)]
    /\ NextRegistryCall(c, RegistryCall(c.op, "list", c.path, c.arg))
    /\ UNCHANGED <<selectedWorktree, repositories, persistedPaths, savesInFlight>>

\* collaborator, get_worktree_branch_name: the branch git has checked out in
\* the worktree, null when it has none (or git does not know the worktree)
GitBranchOf(worktreePath) ==
    LET found == {wt \in UNION {{gitWorktrees[r][i] : i \in 1..Len(gitWorktrees[r])} :
                                    r \in DOMAIN gitWorktrees} : wt.path = worktreePath}
    IN IF found = {} THEN NULL ELSE (CHOOSE wt \in found : TRUE).branch

\* mutant: the branch is written into every worktree of a repository
WithBranchEverywhere(worktrees, worktreePath, branch) ==
    [i \in 1..Len(worktrees) |-> [path |-> worktrees[i].path, branch |-> branch]]

\* repo.worktrees.map((wt) => wt.path === worktreePath ? { ...wt, branch } : wt)
WithBranch(worktrees, worktreePath, branch) ==
    [i \in 1..Len(worktrees) |->
        IF worktrees[i].path = worktreePath
        THEN [path |-> worktrees[i].path, branch |-> branch]
        ELSE worktrees[i]]

\* updateWorktreeBranch: await invoke('get_worktree_branch_name', { worktreePath })
UpdateWorktreeBranch(worktreePath) ==
    IssueRegistryCall(RegistryCall("updateWorktreeBranch", "branch", worktreePath, NULL))

\* collaborator, get_worktree_branch_name: it reads the branch some time
\* before its response arrives; the response carries what it read
BranchNameRead(c) ==
    /\ BagIn(c, registryCalls)
    /\ c.op = "updateWorktreeBranch"
    /\ c.phase = "branch"
    /\ registryCalls' = (registryCalls (-) SetToBag({c}))
                           (+) SetToBag({RegistryCall(c.op, "answered", c.path,
                                                      GitBranchOf(c.path))})
    /\ RegistryOp("get_worktree_branch_name", "read")
    /\ UNCHANGED <<selectedWorktree, repositories, persistedPaths, savesInFlight,
                   gitWorktrees>>

\* the branch name arrived (the one the collaborator read, when the read was
\* a step of its own): it is written into every worktree with that path and
\* into selectedWorktree when that is the worktree
BranchNameResolved(c) ==
    /\ BagIn(c, registryCalls)
    /\ c.op = "updateWorktreeBranch"
    /\ LET branch == IF c.phase = "answered" THEN c.arg ELSE GitBranchOf(c.path) IN
          /\ repositories' =
                [i \in 1..Len(repositories) |->
                    [path |-> repositories[i].path,
                     worktrees |-> WithBranch(repositories[i].worktrees, c.path, branch)]]
          /\ selectedWorktree' =
                IF selectedWorktree.path = c.path
                THEN [path |-> selectedWorktree.path, branch |-> branch]
                ELSE selectedWorktree
    /\ registryCalls' = registryCalls (-) SetToBag({c})
    /\ RegistryOp(c.op, "resolved")
    /\ UNCHANGED <<persistedPaths, savesInFlight, gitWorktrees>>

\* an awaited registry call rejects: addRepository, createWorktreeAuto and
\* deleteWorktree log and rethrow, refreshWorktrees and updateWorktreeBranch do
\* not catch; the
\* rejection reaches the caller and the continuation never runs
RegistryCallReject(c) ==
    /\ BagIn(c, registryCalls)
    /\ registryCalls' = registryCalls (-) SetToBag({c})
    /\ RegistryOp(c.op, "error")
    /\ UNCHANGED <<selectedWorktree, repositories, persistedPaths, savesInFlight,
                   gitWorktrees>>

RegistryNext ==
    \/ \E path \in RepoPaths : AddRepository(path)
    \/ \E c \in BagToSet(registryCalls) : AddRepositoryDiscovered(c)
    \/ \E c \in BagToSet(registryCalls) : AddRepositoryListed(c)
    \/ \E path \in RepoPaths : RemoveRepository(path)
    \/ \E repoPath \in RepoPaths : RefreshWorktrees(repoPath)
    \/ \E repoPath \in RepoPaths : CreateWorktreeAuto(repoPath)
    \/ \E repoPath \in RepoPaths, name \in WorktreeNames : DeleteWorktree(repoPath, name)
    \/ \E c \in BagToSet(registryCalls) : WorktreeCreated(c)
    \/ \E c \in BagToSet(registryCalls) : WorktreeDeleted(c)
    \/ \E c \in BagToSet(registryCalls) : WorktreesListed(c)
    \/ \E repoPath \in RepoPaths :
          \E wt \in WorktreePathsOf(gitWorktrees[repoPath]) : UpdateWorktreeBranch(wt)
    \/ \E c \in BagToSet(registryCalls) : BranchNameResolved(c)
    \/ \E c \in BagToSet(registryCalls) : RegistryCallReject(c)
    \/ \E ok \in BOOLEAN : SaveSettle(ok)

SpecRegistry == Init /\ [][RegistryNext]_vars

----------------------------------------------------------------------------
\* useGitWatcher: the debounced reactions to the backend's change events

\* setTimeout(..., 300) of debouncedBranchUpdate
BranchDebounceMs == 300

\* setTimeout(..., 500) of debouncedWorktreeRefresh
WorktreeDebounceMs == 500

RECURSIVE GCD(_, _)
GCD(a, b) == IF b = 0 THEN a ELSE GCD(b, a % b)

\* the clock advances by at most this much in one step: the largest step that
\* lands on the expiry of either delay
TickMs == GCD(BranchDebounceMs, WorktreeDebounceMs)

\* the clock of the watcher stops here
MaxWatcherTime == 600

\* the events of one burst are counted up to this many
MaxBurst == 3

Min(a, b) == IF a < b THEN a ELSE b

Timer(kind, key, due) == [kind |-> kind, key |-> key, due |-> due]

\* Map.get(key): undefined (NoTimer) when the key is absent
MapGet(m, key) == IF key \in DOMAIN m THEN m[key] ELSE NoTimer

\* Map.set(key, value)
MapSet(m, key, value) ==
    [x \in DOMAIN m \cup {key} |-> IF x = key THEN value ELSE m[x]]

\* Map.delete(key)
MapDelete(m, key) == [x \in DOMAIN m \ {key} |-> m[x]]

\* if (existing) clearTimeout(existing); setTimeout(callback, delay)
Rearm(existing, timeout) ==
    timers' = (IF existing # NoTimer THEN timers \ {existing} ELSE timers) \cup {timeout}

\* mutant: the timer of the previous event is not cleared
DebouncedBranchUpdateKeepsTimer(worktreePath) ==
    LET timeout == Timer("branch", worktreePath, now + BranchDebounceMs)
    IN /\ timers' = timers \cup {timeout}
       /\ pendingBranchUpdates' = MapSet(pendingBranchUpdates, worktreePath, timeout)

\* debouncedBranchUpdate(worktreePath)
DebouncedBranchUpdate(worktreePath) ==
    LET existing == MapGet(pendingBranchUpdates, worktreePath)
        timeout == Timer("branch", worktreePath, now + BranchDebounceMs)
    IN /\ Rearm(existing, timeout)
       /\ pendingBranchUpdates' = MapSet(pendingBranchUpdates, worktreePath, timeout)

\* mutant: the hook keeps one timer for all it debounces, so scheduling clears
\* whatever is pending
DebouncedWorktreeRefreshSingleTimer(repoPath) ==
    LET timeout == Timer("worktree", repoPath, now + WorktreeDebounceMs)
    IN /\ timers' = {timeout}
       /\ pendingWorktreeUpdates' = MapSet(pendingWorktreeUpdates, repoPath, timeout)

\* debouncedWorktreeRefresh(repoPath)
DebouncedWorktreeRefresh(repoPath) ==
    LET existing == MapGet(pendingWorktreeUpdates, repoPath)
        timeout == Timer("worktree", repoPath, now + WorktreeDebounceMs)
    IN /\ Rearm(existing, timeout)
       /\ pendingWorktreeUpdates' = MapSet(pendingWorktreeUpdates, repoPath, timeout)

\* history: an event for (kind, key) was handled now; it continues the burst
\* when the call of the event before it is still to come
EventSeen(kind, key) ==
    LET before == IF <<kind, key>> \in DOMAIN callsSinceEvent
                  THEN callsSinceEvent[<<kind, key>>] ELSE NoBurst
        events == IF before.events > 0 /\ before.calls = 0
                  THEN Min(before.events + 1, MaxBurst) ELSE 1
    IN callsSinceEvent' =
           MapSet(callsSinceEvent, <<kind, key>>,
                  [at |-> now, events |-> events, calls |-> 0, quiet |-> 0])

\* history: the timer callback of (kind, key) made its store call now
CallMade(kind, key) ==
    callsSinceEvent' =
        [callsSinceEvent EXCEPT ![<<kind, key>>] =
            [at |-> 0, events |-> @.events, calls |-> @.calls + 1,
             quiet |-> now - @.at]]

\* what a step of the watcher leaves alone
WatcherOp(name, out) ==
    /\ lastOp' = Op(name, out)
    /\ UNCHANGED <<selectedWorktree, terminalsByWorktree, currentTerminals,
                   currentActiveTerminalId, backendVars, repositories, persistedPaths,
                   savesInFlight, gitWorktrees, scope, clockSteps, cacheVars, diffVars,
                   listingVars, loaderVars, pollVars, startupVars,
                   lifecycleVars>>

\* the live subscriptions to an event
LiveSubscriptions(event) == {s \in subscriptions : s.event = event}

\* an event reaches a listener whose effect run has not been cleaned up: its
\* callback gets past if (!mounted) return
ListenerMounted(event) == \E s \in LiveSubscriptions(event) : s.mounted

\* the cleanup of the listener effect, mounted = false, as the listeners
\* subscribed by that run see it
CleanedUpListeners(subs) == {[s EXCEPT !.mounted = FALSE] : s \in subs}

\* the same cleanup as the setupListeners() calls of that run, which subscribe
\* their listeners when their listen(...) resolves, see it
CleanedUpCalls(calls) ==
    [c \in {[x EXCEPT !.mounted = FALSE] : x \in BagToSet(calls)} |->
        CopiesIn(c, calls) + CopiesIn([c EXCEPT !.mounted = TRUE], calls)]

\* the worktrees the backend watches: those of the registered repositories
WatchedWorktrees ==
    UNION {WorktreePathsOf(repositories[i].worktrees) : i \in 1..Len(repositories)}

\* the 'git-head-changed' listener: if (!mounted) return; debouncedBranchUpdate(...)
GitHeadChanged(worktreePath) ==
    /\ ListenerMounted("git-head-changed")
    /\ DebouncedBranchUpdate(worktreePath)
    /\ EventSeen("branch", worktreePath)
    /\ WatcherOp("git-head-changed", "done")
    /\ UNCHANGED <<now, watcherMounted, pendingWorktreeUpdates, registryCalls>>

\* the 'worktree-changed' listener: if (!mounted) return; debouncedWorktreeRefresh(...)
WorktreeChanged(repoPath) ==
    /\ ListenerMounted("worktree-changed")
    /\ DebouncedWorktreeRefresh(repoPath)
    /\ EventSeen("worktree", repoPath)
    /\ WatcherOp("worktree-changed", "done")
    /\ UNCHANGED <<now, watcherMounted, pendingBranchUpdates, registryCalls>>

\* the timer of debouncedBranchUpdate expires:
\* pendingBranchUpdates.current.delete(worktreePath); updateWorktreeBranch(worktreePath)
BranchTimerFired(t) ==
    /\ t \in timers
    /\ t.kind = "branch"
    /\ t.due <= now
    /\ timers' = timers \ {t}
    /\ pendingBranchUpdates' = MapDelete(pendingBranchUpdates, t.key)
    /\ EnterFlight(RegistryCall("updateWorktreeBranch", "branch", t.key, NULL))
    /\ CallMade("branch", t.key)
    /\ WatcherOp("updateWorktreeBranch", "pending")
    /\ UNCHANGED <<now, watcherMounted, pendingWorktreeUpdates>>

\* the timer of debouncedWorktreeRefresh expires:
\* pendingWorktreeUpdates.current.delete(repoPath); refreshWorktrees(repoPath)
WorktreeTimerFired(t) ==
    /\ t \in timers
    /\ t.kind = "worktree"
    /\ t.due <= now
    /\ timers' = timers \ {t}
    /\ pendingWorktreeUpdates' = MapDelete(pendingWorktreeUpdates, t.key)
    /\ EnterFlight(RegistryCall("refreshWorktrees", "list", t.key, NULL))
    /\ CallMade("worktree", t.key)
    /\ WatcherOp("refreshWorktrees", "pending")
    /\ UNCHANGED <<now, watcherMounted, pendingBranchUpdates>>

\* the worktree paths in the order Array.prototype.sort() gives them
WorktreeOrder == <<"wA", "wB", "wC">>

\* r.worktrees.map(wt => wt.path).sort().join(','): the paths in sorted order
\* (the joined string is kept as the sequence of its parts)
SortedPaths(worktrees) ==
    LET Listed(p) == p \in WorktreePathsOf(worktrees) IN SelectSeq(WorktreeOrder, Listed)

\* repositories.map(r => ({ path: r.info.path, worktrees: ... }))
Signature(repos) ==
    [i \in 1..Len(repos) |->
        [path |-> repos[i].path, worktrees |-> SortedPaths(repos[i].worktrees)]]

\* invoke('start_watching_repository', { repoPath, worktreePaths }) for each
\* repository, when the store is initialized and the registry is not empty
StartWatching(initialized, repos) ==
    IF ~initialized \/ Len(repos) = 0 THEN {}
    ELSE {[repoPath |-> repos[i].path,
           worktreePaths |-> [k \in 1..Len(repos[i].worktrees) |->
                                 repos[i].worktrees[k].path]] : i \in 1..Len(repos)}

\* the hook after its effects ran on an initialized store and both listen
\* calls resolved
WatchingSubscribed ==
    /\ renderedInitialized = TRUE
    /\ repoWorktreeSignature = Signature(repositories)
    /\ startWatching = StartWatching(TRUE, repositories)
    /\ unlistenHeadRef = 1
    /\ unlistenWorktreeRef = 2
    /\ subscriptions = {[event |-> "git-head-changed", id |-> 1, mounted |-> TRUE],
                        [event |-> "worktree-changed", id |-> 2, mounted |-> TRUE]}
    /\ listenCalls = EmptyBag

\* the component unmounts: mounted = false, both listeners are unsubscribed and
\* stop_all_watchers is dispatched; the armed timers are left armed
WatcherUnmount ==
    /\ watcherMounted
    /\ watcherMounted' = FALSE
    /\ subscriptions' = CleanedUpListeners(
                            {s \in subscriptions :
                                s.id \notin {unlistenHeadRef, unlistenWorktreeRef}})
    /\ listenCalls' = CleanedUpCalls(listenCalls)
    /\ unlistenHeadRef' = 0
    /\ unlistenWorktreeRef' = 0
    /\ lastOp' = Op("useGitWatcher", "unmounted")
    /\ UNCHANGED <<sessionVars, backendVars, registryVars, scope, clockVars,
                   pendingBranchUpdates, pendingWorktreeUpdates, timers,
                   callsSinceEvent, cacheVars, diffVars, listingVars, loaderVars,
                   pollVars, startupVars, renderedInitialized, repoWorktreeSignature,
                   startWatching>>

\* the earliest expiry among the armed timers, or limit when none is armed
RECURSIVE EarliestDue(_, _)
EarliestDue(ts, limit) ==
    IF ts = {} THEN limit
    ELSE LET t == CHOOSE x \in ts : TRUE
         IN EarliestDue(ts \ {t}, Min(limit, t.due))

\* time passes, but never past the expiry of an armed timer: the event loop
\* runs a timer's callback when its delay has elapsed
Tick ==
    /\ now < MaxWatcherTime
    /\ \A t \in timers : t.due > now
    /\ now' = EarliestDue(timers, now + TickMs)
    /\ WatcherOp("clock", "tick")
    /\ UNCHANGED <<watcherVars, registryCalls>>

\* the watcher at work: the store is initialized with both repositories
\* registered, the hook is mounted and its two listeners are subscribed
WatchedRepository ==
    [path |-> "r1",
     worktrees |-> <<[path |-> "wA", branch |-> "main"], AutoWorktree("r1")>>]

InitWatcher ==
    /\ SessionsCreated
    /\ repositories = <<WatchedRepository>>
    /\ persistedPaths = <<WatchedRepository.path>>
    /\ savesInFlight = <<>>
    /\ registryCalls = EmptyBag
    /\ gitWorktrees = [InitialGitWorktrees EXCEPT !["r1"] = WatchedRepository.worktrees]
    /\ isInitialized = TRUE
    /\ initializeCalls = EmptyBag
    /\ lastOp = Op("useGitWatcher", "mounted")
    /\ watcherMounted = TRUE
    /\ WatcherIdle
    /\ CodeReviewIdle
    /\ ListingIdle
    /\ LoaderIdle
    /\ PollIdle
    /\ WatchingSubscribed
    /\ scope = "watcher"

WatcherNext ==
    \/ \E w \in WatchedWorktrees : GitHeadChanged(w)
    \/ \E i \in 1..Len(repositories) : WorktreeChanged(repositories[i].path)
    \/ \E t \in timers : BranchTimerFired(t)
    \/ \E t \in timers : WorktreeTimerFired(t)
    \/ \E c \in BagToSet(registryCalls) : BranchNameResolved(c)
    \/ \E c \in BagToSet(registryCalls) : WorktreesListed(c)
    \/ \E c \in BagToSet(registryCalls) : RegistryCallReject(c)
    \/ WatcherUnmount
    \/ Tick

SpecWatcher == InitWatcher /\ [][WatcherNext]_vars

DebounceMs(kind) == IF kind = "branch" THEN BranchDebounceMs ELSE WorktreeDebounceMs

ArmedFor(k) == {t \in timers : t.kind = k[1] /\ t.key = k[2]}

\* C8: after the last event of a burst for a workspace (a repository), either
\* no store call has been made yet, the delay since that event has not been
\* exceeded and exactly one timer is armed for it, or exactly one call has been
\* made, it was made 300 ms (500 ms) after that event, and no timer is armed
C8_OneCallAfterQuiet ==
    \A k \in DOMAIN callsSinceEvent :
        \/ /\ callsSinceEvent[k].calls = 0
           /\ now <= callsSinceEvent[k].at + DebounceMs(k[1])
           /\ Cardinality(ArmedFor(k)) = 1
        \/ /\ callsSinceEvent[k].calls = 1
           /\ callsSinceEvent[k].quiet = DebounceMs(k[1])
           /\ ArmedFor(k) = {}

\* C8 witness: three git-head-changed events for wA, each less than 300 ms
\* after the one before, and the one updateWorktreeBranch call they cause, made
\* 300 ms after the last of them
C8_Witness ==
    /\ <<"branch", "wA">> \in DOMAIN callsSinceEvent
    /\ callsSinceEvent[<<"branch", "wA">>].events = 3
    /\ callsSinceEvent[<<"branch", "wA">>].calls = 1
    /\ callsSinceEvent[<<"branch", "wA">>].quiet = BranchDebounceMs
    /\ lastOp = Op("updateWorktreeBranch", "pending")

\* the armed timers other than the one of (kind, key)
OtherTimers(kind, key) == {t \in timers : t.kind # kind \/ t.key # key}

\* C29: the step that handles a git-head-changed event for a worktree leaves
\* armed, with its expiry unchanged, every timer of another worktree and every
\* worktree-list timer, and leaves their map entries as they were; the step
\* that handles a worktree-changed event for a repository does the same for
\* every timer of another repository and every branch timer
C29_DebounceIsPerKey ==
    [][ /\ \A w \in WatchedWorktrees :
              GitHeadChanged(w)
                 => /\ OtherTimers("branch", w) \subseteq timers'
                    /\ timers' \ OtherTimers("branch", w)
                          = {Timer("branch", w, now + BranchDebounceMs)}
                    /\ pendingWorktreeUpdates' = pendingWorktreeUpdates
                    /\ \A k \in DOMAIN pendingBranchUpdates \ {w} :
                          /\ k \in DOMAIN pendingBranchUpdates'
                          /\ pendingBranchUpdates'[k] = pendingBranchUpdates[k]
        /\ \A r \in RepoPaths :
              WorktreeChanged(r)
                 => /\ OtherTimers("worktree", r) \subseteq timers'
                    /\ timers' \ OtherTimers("worktree", r)
                          = {Timer("worktree", r, now + WorktreeDebounceMs)}
                    /\ pendingBranchUpdates' = pendingBranchUpdates
                    /\ \A k \in DOMAIN pendingWorktreeUpdates \ {r} :
                          /\ k \in DOMAIN pendingWorktreeUpdates'
                          /\ pendingWorktreeUpdates'[k] = pendingWorktreeUpdates[k]
      ]_vars

\* C29 witness: a git-head-changed event for wA was handled while the branch
\* timer of wB and the worktree-list timer of r1 were pending, and both are
\* still due before the timer the event armed
C29_Witness ==
    /\ lastOp = Op("git-head-changed", "done")
    /\ Timer("branch", "wA", now + BranchDebounceMs) \in timers
    /\ \E t \in timers : t.kind = "branch" /\ t.key = "wB" /\ t.due < now + BranchDebounceMs
    /\ \E t \in timers : t.kind = "worktree" /\ t.key = "r1" /\ t.due < now + BranchDebounceMs

----------------------------------------------------------------------------
\* The PR data cache of the store

\* const CACHE_TTL_MS = 5 * 60 * 1000
CACHE_TTL_MS == 5 * 60 * 1000

\* how far the clock moves between two operations on the cache
ClockJumps == {1000, 299000}

\* the clock is moved at most this often
MaxClockSteps == 3

\* repository paths as the characters they are made of
CacheRepoPaths == {<<"a">>, <<"a", ":", "1">>}

\* the pull requests the cache is asked about
PRsAsked == {<<<<"a">>, 12>>, <<<<"a", ":", "1">>, 7>>}

\* the data argument of setPRDataCache: each field a value, null or not given
PRDataInputs ==
    {[checksResult |-> "checks", prDetails |-> UNDEFINED],
     [checksResult |-> NULL, prDetails |-> "details"]}

DigitChar(d) == <<"0", "1", "2", "3", "4", "5", "6", "7", "8", "9">>[d + 1]

\* the decimal digits of a number, as template interpolation writes it
RECURSIVE Digits(_)
Digits(n) ==
    IF n < 10 THEN <<DigitChar(n)>> ELSE Digits(n \div 10) \o <<DigitChar(n % 10)>>

\* `${repoPath}:${prNumber}`
CacheKey(repoPath, prNumber) == repoPath \o <<":">> \o Digits(prNumber)

\* key.startsWith(prefix)
StartsWith(key, prefix) ==
    /\ Len(key) >= Len(prefix)
    /\ SubSeq(key, 1, Len(prefix)) = prefix

\* what a step on the cache leaves alone
CacheOp(name, out) ==
    /\ lastOp' = Op(name, out)
    /\ UNCHANGED <<sessionVars, backendVars, registryVars, scope, watcherVars, diffVars,
                   listingVars, loaderVars, pollVars, startupVars,
                   lifecycleVars>>

\* history: the fields data gives are given now, the others when they last were
FieldsSupplied(cacheKey, data) ==
    LET before == IF cacheKey \in DOMAIN suppliedAt THEN suppliedAt[cacheKey]
                  ELSE NeverSupplied
    IN suppliedAt' =
          [k \in DOMAIN suppliedAt \cup {cacheKey} |->
              IF k # cacheKey THEN suppliedAt[k]
              ELSE [checksResult |-> IF data.checksResult # UNDEFINED
                                     THEN now ELSE before.checksResult,
                    prDetails |-> IF data.prDetails # UNDEFINED
                                  THEN now ELSE before.prDetails]]

\* setPRDataCache(repoPath, prNumber, data)
SetPRDataCache(repoPath, prNumber, data) ==
    LET cacheKey == CacheKey(repoPath, prNumber)
        existing == IF cacheKey \in DOMAIN prDataCache THEN prDataCache[cacheKey]
                    ELSE [checksResult |-> NULL, prDetails |-> NULL, lastUpdated |-> 0]
        entry == [checksResult |-> IF data.checksResult # UNDEFINED
                                   THEN data.checksResult ELSE existing.checksResult,
                  prDetails |-> IF data.prDetails # UNDEFINED
                                THEN data.prDetails ELSE existing.prDetails,
                  lastUpdated |-> now]
    IN /\ prDataCache' = [k \in DOMAIN prDataCache \cup {cacheKey} |->
                             IF k = cacheKey THEN entry ELSE prDataCache[k]]
       /\ FieldsSupplied(cacheKey, data)
       /\ CacheOp("setPRDataCache", "done")
       /\ UNCHANGED <<lastRead, clockVars>>

\* mutant: an entry is already stale when its age equals the TTL
GetPRDataCacheStaleAtTTL(repoPath, prNumber) ==
    LET cacheKey == CacheKey(repoPath, prNumber)
        fresh == /\ cacheKey \in DOMAIN prDataCache
                 /\ ~(now - prDataCache[cacheKey].lastUpdated >= CACHE_TTL_MS)
    IN /\ lastRead' = [key |-> cacheKey,
                       result |-> IF fresh THEN prDataCache[cacheKey] ELSE NoEntry]
       /\ CacheOp("getPRDataCache", IF fresh THEN "hit" ELSE "null")
       /\ UNCHANGED <<prDataCache, suppliedAt, clockVars>>

\* getPRDataCache(repoPath, prNumber): null (NoEntry) when the key is absent or
\* Date.now() - cached.lastUpdated > CACHE_TTL_MS
GetPRDataCache(repoPath, prNumber) ==
    LET cacheKey == CacheKey(repoPath, prNumber)
        fresh == /\ cacheKey \in DOMAIN prDataCache
                 /\ ~(now - prDataCache[cacheKey].lastUpdated > CACHE_TTL_MS)
    IN /\ lastRead' = [key |-> cacheKey,
                       result |-> IF fresh THEN prDataCache[cacheKey] ELSE NoEntry]
       /\ CacheOp("getPRDataCache", IF fresh THEN "hit" ELSE "null")
       /\ UNCHANGED <<prDataCache, suppliedAt, clockVars>>

\* clearPRDataCacheForRepo(repoPath)
ClearPRDataCacheForRepo(repoPath) ==
    LET prefix == repoPath \o <<":">>
        kept == {k \in DOMAIN prDataCache : ~StartsWith(k, prefix)}
    IN /\ prDataCache' = [k \in kept |-> prDataCache[k]]
       /\ suppliedAt' = [k \in kept |-> suppliedAt[k]]
       /\ CacheOp("clearPRDataCacheForRepo", "done")
       /\ UNCHANGED <<lastRead, clockVars>>

\* time passes between two operations
ClockAdvance(ms) ==
    /\ clockSteps < MaxClockSteps
    /\ now' = now + ms
    /\ clockSteps' = clockSteps + 1
    /\ CacheOp("clock", "tick")
    /\ UNCHANGED cacheVars

InitCache ==
    /\ StoreCreated
    /\ HooksUnmounted
    /\ scope = "cache"

CacheNext ==
    \/ \E pr \in PRsAsked, data \in PRDataInputs : SetPRDataCache(pr[1], pr[2], data)
    \/ \E pr \in PRsAsked : GetPRDataCache(pr[1], pr[2])
    \/ \E r \in CacheRepoPaths : ClearPRDataCacheForRepo(r)
    \/ \E ms \in ClockJumps : ClockAdvance(ms)

SpecCache == InitCache /\ [][CacheNext]_vars

\* C9: getPRDataCache(repoPath, prNumber) hands back the entry stored under the
\* key when there is one and its age now - lastUpdated is at most five minutes,
\* and null otherwise (no entry, or an older one)
C9_TTLRead ==
    [][\A pr \in PRsAsked :
          GetPRDataCache(pr[1], pr[2]) =>
             LET k == CacheKey(pr[1], pr[2]) IN
             /\ lastRead'.key = k
             /\ (k \in DOMAIN prDataCache /\ now - prDataCache[k].lastUpdated <= 300000)
                   => lastRead'.result = prDataCache[k] /\ lastRead'.result # NoEntry
             /\ (k \notin DOMAIN prDataCache \/ now - prDataCache[k].lastUpdated > 300000)
                   => lastRead'.result = NoEntry
      ]_vars

\* C9 witness: a read at exactly five minutes after the entry was stamped
\* handed the entry back
C9_Witness ==
    /\ lastOp = Op("getPRDataCache", "hit")
    /\ lastRead.result # NoEntry
    /\ now - lastRead.result.lastUpdated = 300000
    /\ lastRead.key \in DOMAIN prDataCache
    /\ prDataCache[lastRead.key] = lastRead.result

\* C35: when getPRDataCache hands back an entry, each of its fields that holds
\* a value was given to setPRDataCache at most five minutes before the read
C35_ReturnedFieldsAreFresh ==
    (lastOp = Op("getPRDataCache", "hit"))
        => /\ lastRead.result.checksResult # NULL
              => now - suppliedAt[lastRead.key].checksResult <= CACHE_TTL_MS
           /\ lastRead.result.prDetails # NULL
              => now - suppliedAt[lastRead.key].prDetails <= CACHE_TTL_MS

\* C24: clearPRDataCacheForRepo(r) leaves no entry of a pull request of r in
\* the cache and leaves the entry of every pull request of every other
\* repository as it was
C24_ClearOnlyThatRepo ==
    [][\A r \in CacheRepoPaths :
          ClearPRDataCacheForRepo(r) =>
             \A pr \in PRsAsked :
                LET k == CacheKey(pr[1], pr[2]) IN
                IF pr[1] = r
                THEN k \notin DOMAIN prDataCache'
                ELSE /\ k \in DOMAIN prDataCache' <=> k \in DOMAIN prDataCache
                     /\ k \in DOMAIN prDataCache => prDataCache'[k] = prDataCache[k]
      ]_vars

----------------------------------------------------------------------------
\* useCodeReview: the per-file diffs of the worktree under review

\* get_uncommitted_diff / get_file_diff calls in flight at once
MaxDiffFetches == 3

\* files of the worktree that loadDiff is asked for
FilePaths == {"a.ts", "b.ts"}

\* collaborator: the diff of a file as it is in a worktree; the patch is
\* written as the worktree it was taken in
FileDiffData(worktreePath, path) == [path |-> path, patch |-> worktreePath]

\* { path, patch: "" }: what a failed fetch leaves in the cache
EmptyDiff(path) == [path |-> path, patch |-> ""]

DiffFetch(worktreePath, path) == [worktreePath |-> worktreePath, filePath |-> path]

\* what a step of the hook leaves alone
CodeReviewOp(name, out) ==
    /\ lastOp' = Op(name, out)
    /\ UNCHANGED <<sessionVars, backendVars, registryVars, scope, clockVars,
                   watcherVars, cacheVars, listingVars, loaderVars, pollVars, startupVars,
                   lifecycleVars>>

\* loadDiff(path) of the latest render, when its closure sees the path cached
\* or loading: return
LoadDiffSkipped(path) ==
    /\ \/ path \in DOMAIN renderedDiffCache
       \/ path \in renderedLoadingDiffs
    /\ CodeReviewOp("loadDiff", "noop")
    /\ UNCHANGED diffVars

\* loadDiff(path) of the latest render, when its closure sees the path neither
\* cached nor loading: setLoadingDiffs(add path); await invoke(command, ...)
LoadDiffFetch(path) ==
    /\ path \notin DOMAIN renderedDiffCache
    /\ path \notin renderedLoadingDiffs
    /\ BagCardinality(diffFetches) < MaxDiffFetches
    /\ loadingDiffs' = loadingDiffs \cup {path}
    /\ diffFetches' = diffFetches (+) SetToBag({DiffFetch(worktreePathRef, path)})
    /\ CodeReviewOp("loadDiff", "pending")
    /\ UNCHANGED <<diffCache, renderedDiffCache, renderedLoadingDiffs, worktreePathRef,
                   inFlightAtClear>>

LoadDiff(path) == LoadDiffSkipped(path) \/ LoadDiffFetch(path)

\* history: the call that settles is one that was in flight at a clear, or one
\* issued since; of equal calls either may be the one
FetchLeaves(f) ==
    \E atClear \in {b \in BOOLEAN :
                       IF b THEN BagIn(f, inFlightAtClear)
                       ELSE CopiesIn(f, diffFetches) > CopiesIn(f, inFlightAtClear)} :
        inFlightAtClear' = IF atClear THEN inFlightAtClear (-) SetToBag({f})
                           ELSE inFlightAtClear

\* the continuation of loadDiff: the diff (or, on failure, the empty diff) goes
\* into the cache and the path leaves loadingDiffs
DiffFetchSettled(f, ok) ==
    /\ BagIn(f, diffFetches)
    /\ diffFetches' = diffFetches (-) SetToBag({f})
    /\ LET diff == IF ok THEN FileDiffData(f.worktreePath, f.filePath)
                   ELSE EmptyDiff(f.filePath)
       IN diffCache' = [k \in DOMAIN diffCache \cup {f.filePath} |->
                           IF k = f.filePath THEN diff ELSE diffCache[k]]
    /\ loadingDiffs' = loadingDiffs \ {f.filePath}
    /\ FetchLeaves(f)
    /\ CodeReviewOp("loadDiff", IF ok THEN "resolved" ELSE "caught")
    /\ UNCHANGED <<renderedDiffCache, renderedLoadingDiffs, worktreePathRef>>

\* React renders the component again: useCallback makes a new loadDiff over
\* the current diffCache and loadingDiffs
Render ==
    /\ <<renderedDiffCache, renderedLoadingDiffs>> # <<diffCache, loadingDiffs>>
    /\ renderedDiffCache' = diffCache
    /\ renderedLoadingDiffs' = loadingDiffs
    /\ CodeReviewOp("useCodeReview", "rendered")
    /\ UNCHANGED <<diffCache, loadingDiffs, diffFetches, worktreePathRef, inFlightAtClear>>

\* the hook is mounted for ReviewedWorktree and has loaded nothing yet
InitCodeReview ==
    /\ StoreCreated
    /\ watcherMounted = FALSE
    /\ WatcherIdle
    /\ CodeReviewIdle
    /\ ListingIdle
    /\ LoaderIdle
    /\ PollIdle
    /\ WatchingIdle
    /\ scope = "codeReview"

CodeReviewNext ==
    \/ \E path \in FilePaths : LoadDiff(path)
    \/ \E f \in BagToSet(diffFetches), ok \in BOOLEAN : DiffFetchSettled(f, ok)
    \/ Render

SpecCodeReview == InitCodeReview /\ [][CodeReviewNext]_vars

\* C10: at no time are two backend diff fetches for the same path unresolved:
\* a loadDiff(path) called while the fetch of an earlier loadDiff(path) is in
\* flight issues no fetch of its own
C10_OneFetchPerPath ==
    \A path \in FilePaths :
        CopiesIn(DiffFetch(ReviewedWorktree, path), diffFetches) <= 1

----------------------------------------------------------------------------
\* useCodeReview with the background loader of DiffTab (DiffOverlay has the
\* same loader): the listing of changed files and the loadNext chain

\* listing calls in flight at once
MaxListingFetches == 2

\* collaborator, get_uncommitted_files / get_changed_files: what it may answer
Listings == {<<"a.ts", "b.ts">>, <<"b.ts">>}

\* what getDiff and isDiffLoading of one render answer from
Closure(cache, loading) == [cached |-> DOMAIN cache, loading |-> loading]

\* the fetch a loadNext chain awaits, with the closure the chain runs in
LoaderFetch(worktreePath, path, closure) ==
    [worktreePath |-> worktreePath, filePath |-> path, closure |-> closure]

\* loadingQueueRef.current.find((p) => !getDiff(p) && !isDiffLoading(p))
RECURSIVE FindNext(_, _)
FindNext(queue, closure) ==
    IF queue = <<>> THEN NULL
    ELSE IF Head(queue) \notin closure.cached /\ Head(queue) \notin closure.loading
         THEN Head(queue)
         ELSE FindNext(Tail(queue), closure)

\* loadingQueueRef.current.filter((p) => p !== nextPath)
QueueWithout(queue, nextPath) ==
    LET Keep(p) == p # nextPath IN SelectSeq(queue, Keep)

\* what a step of the view leaves alone
LoaderOp(name, out) ==
    /\ lastOp' = Op(name, out)
    /\ UNCHANGED <<sessionVars, backendVars, registryVars, scope, clockVars,
                   watcherVars, cacheVars, pollVars, startupVars,
                   lifecycleVars>>

\* loadNext() as created by the render whose closure is given, entered with
\* the queue, the busy flag, the hook's cache and loading set and the calls in
\* flight as they are at that moment. The path it finds passes the test of that
\* render's loadDiff (the same closure), which adds it to loadingDiffs and
\* invokes the backend
LoadNext(queue, busy, closure, cache, loading, fetches) ==
    LET nextPath == FindNext(queue, closure) IN
    IF busy \/ queue = <<>>
    THEN /\ loadingQueueRef' = queue
         /\ isLoadingRef' = busy
         /\ loadingDiffs' = loading
         /\ diffFetches' = fetches
         /\ loaderIssued' = loaderIssued
    ELSE IF nextPath = NULL
    THEN /\ loadingQueueRef' = <<>>
         /\ isLoadingRef' = FALSE
         /\ loadingDiffs' = loading
         /\ diffFetches' = fetches
         /\ loaderIssued' = loaderIssued
    ELSE /\ loadingQueueRef' = queue
         /\ isLoadingRef' = TRUE
         /\ loadingDiffs' = loading \cup {nextPath}
         /\ diffFetches' =
               fetches (+) SetToBag({LoaderFetch(worktreePathRef, nextPath, closure)})
         /\ loaderIssued' = [path |-> nextPath,
                             cached |-> nextPath \in DOMAIN cache,
                             loading |-> nextPath \in loading]

\* React renders the view again and runs its effects: the queue is reset to
\* the listing when the listing changed and is not empty, then loadNext of this
\* render is called
ViewRender ==
    /\ effectsPending
    /\ renderedDiffCache' = diffCache
    /\ renderedLoadingDiffs' = loadingDiffs
    /\ changedFilesDirty' = FALSE
    /\ LET queue == IF changedFilesDirty /\ Len(changedFiles) > 0
                    THEN changedFiles ELSE loadingQueueRef
       IN LoadNext(queue, isLoadingRef, Closure(diffCache, loadingDiffs),
                   diffCache, loadingDiffs, diffFetches)
    /\ effectsPending' = (loadingDiffs' # loadingDiffs)
    /\ LoaderOp("DiffTab", "rendered")
    /\ UNCHANGED <<diffCache, worktreePathRef, inFlightAtClear, changedFiles, isLoading,
                   error, listingFetches>>

\* the fetch a chain awaits settles: loadDiff writes the diff (or the empty
\* diff) and takes the path out of loadingDiffs, then the chain releases
\* isLoadingRef, drops the path from the queue and calls its own loadNext again
LoaderDiffSettled(f, ok) ==
    /\ BagIn(f, diffFetches)
    /\ LET diff == IF ok THEN FileDiffData(f.worktreePath, f.filePath)
                   ELSE EmptyDiff(f.filePath)
           cache == [k \in DOMAIN diffCache \cup {f.filePath} |->
                        IF k = f.filePath THEN diff ELSE diffCache[k]]
       IN /\ diffCache' = cache
          /\ LoadNext(QueueWithout(loadingQueueRef, f.filePath), FALSE, f.closure,
                      cache, loadingDiffs \ {f.filePath},
                      diffFetches (-) SetToBag({f}))
    /\ FetchLeaves(f)
    /\ effectsPending' = TRUE
    /\ LoaderOp("loadDiff", IF ok THEN "resolved" ELSE "caught")
    /\ UNCHANGED <<renderedDiffCache, renderedLoadingDiffs, worktreePathRef, changedFiles, isLoading,
                   error, listingFetches, changedFilesDirty>>

\* setDiffCache({}); fetchChangedFiles(): setIsLoading(true); setError(null);
\* await invoke(command, { worktreePath })
ClearAndRelist ==
    /\ listingFetches < MaxListingFetches
    /\ diffCache' = [k \in {} |-> NoDiff]
    /\ inFlightAtClear' = diffFetches
    /\ isLoading' = TRUE
    /\ error' = NULL
    /\ listingFetches' = listingFetches + 1
    /\ effectsPending' = TRUE
    /\ UNCHANGED <<loadingDiffs, renderedDiffCache, renderedLoadingDiffs, diffFetches,
                   worktreePathRef, changedFiles, changedFilesDirty, loaderVars>>

\* refresh()
Refresh ==
    /\ ClearAndRelist
    /\ LoaderOp("refresh", "pending")

\* the 'git-index-changed' listener, for an event of the worktree under review
GitIndexChanged ==
    /\ ClearAndRelist
    /\ LoaderOp("git-index-changed", "pending")

\* the listing arrived: setChangedFiles(files); setIsLoading(false)
ListingFetched(files) ==
    /\ listingFetches > 0
    /\ listingFetches' = listingFetches - 1
    /\ changedFiles' = files
    /\ changedFilesDirty' = TRUE
    /\ isLoading' = FALSE
    /\ effectsPending' = TRUE
    /\ LoaderOp("fetchChangedFiles", "resolved")
    /\ UNCHANGED <<diffVars, error, loaderVars>>

\* the listing call rejected: setError(String(e)); setChangedFiles([]);
\* setIsLoading(false)
ListingFailed ==
    /\ listingFetches > 0
    /\ listingFetches' = listingFetches - 1
    /\ error' = "error"
    /\ changedFiles' = <<>>
    /\ changedFilesDirty' = TRUE
    /\ isLoading' = FALSE
    /\ effectsPending' = TRUE
    /\ LoaderOp("fetchChangedFiles", "caught")
    /\ UNCHANGED <<diffVars, loaderVars>>

\* the view is mounted for ReviewedWorktree, the hook has read the diff mode
\* and its first fetchChangedFiles is awaiting the listing
InitDiffLoader ==
    /\ StoreCreated
    /\ watcherMounted = FALSE
    /\ WatcherIdle
    /\ CodeReviewIdle
    /\ LoaderIdle
    /\ PollIdle
    /\ WatchingIdle
    /\ changedFiles = <<>>
    /\ isLoading = TRUE
    /\ error = NULL
    /\ listingFetches = 1
    /\ changedFilesDirty = FALSE
    /\ effectsPending = FALSE
    /\ scope = "diffLoader"

DiffLoaderNext ==
    \/ ViewRender
    \/ \E f \in BagToSet(diffFetches), ok \in BOOLEAN : LoaderDiffSettled(f, ok)
    \/ Refresh
    \/ GitIndexChanged
    \/ \E files \in Listings : ListingFetched(files)
    \/ ListingFailed

SpecDiffLoader == InitDiffLoader /\ [][DiffLoaderNext]_vars

\* C11: the loader of one view never has two diff fetches in flight, and the
\* path of every fetch it issues is, at that moment, neither in the diff cache
\* nor in the loading set
C11_OneFetchSkippingKnown ==
    /\ BagCardinality(diffFetches) <= 1
    /\ ~loaderIssued.cached
    /\ ~loaderIssued.loading

\* C21: the step in which a listing fetch fails leaves error set, changedFiles
\* empty and isLoading false, and the step in which a listing fetch succeeds
\* leaves error null and isLoading false
C21_ListingError ==
    [][ /\ lastOp' = Op("fetchChangedFiles", "caught")
           => /\ error' # NULL
              /\ changedFiles' = <<>>
              /\ ~isLoading'
        /\ lastOp' = Op("fetchChangedFiles", "resolved")
           => /\ error' = NULL
              /\ ~isLoading'
      ]_vars

\* the fetches a step issues
FetchesIssued == {f \in BagToSet(diffFetches') : CopiesIn(f, diffFetches') > CopiesIn(f, diffFetches)}

\* C20: the step in which a diff fetch fails takes the call out of flight,
\* leaves the placeholder { path, patch: '' } in diffCache for its path and
\* leaves error as it was, and no step issues a fetch for a path and leaves
\* the path out of loadingDiffs or with its placeholder still in diffCache
C20_PlaceholderOnFailure ==
    [][ /\ lastOp' = Op("loadDiff", "caught")
           => \E f \in BagToSet(diffFetches) :
                 /\ CopiesIn(f, diffFetches') < CopiesIn(f, diffFetches)
                 /\ f.filePath \in DOMAIN diffCache'
                 /\ diffCache'[f.filePath] = EmptyDiff(f.filePath)
                 /\ f.filePath \notin loadingDiffs' \/ f.filePath \in
                       {g.filePath : g \in FetchesIssued}
                 /\ error' = error
        /\ \A f \in FetchesIssued :
              ~ /\ f.filePath \in DOMAIN diffCache'
                /\ diffCache'[f.filePath] = EmptyDiff(f.filePath)
      ]_vars

----------------------------------------------------------------------------
\* usePRStatusPolling: the batch poll of PR statuses

\* checkGitHubCli calls awaiting the collaborator at once
MaxCliChecks == 1

SeqRange(s) == {s[i] : i \in 1..Len(s)}

\* r.worktrees.map(wt => wt.branch)
\*    .filter((b) => b !== null && b !== 'main' && b !== 'master')
PolledBranches(worktrees) ==
    LET Polled(b) == b # NULL /\ b # "main" /\ b # "master"
    IN SelectSeq([i \in 1..Len(worktrees) |-> worktrees[i].branch], Polled)

\* repositories.map(r => ({ repo_path: r.info.path, branches: ... }))
PollRequest(repos) ==
    [i \in 1..Len(repos) |->
        [repo_path |-> repos[i].path, branches |-> PolledBranches(repos[i].worktrees)]]

\* collaborator, get_all_prs_for_repos: one result per repository asked for,
\* with a PR for any of the branches asked for
PollResponses(request) ==
    LET asked == {request[i].repo_path : i \in 1..Len(request)}
        BranchesOf(r) == UNION {SeqRange(request[i].branches) :
                                   i \in {j \in 1..Len(request) : request[j].repo_path = r}}
    IN {resp \in [asked -> SUBSET (UNION {BranchesOf(r) : r \in asked})] :
           \A r \in asked : resp[r] \subseteq BranchesOf(r)}

\* the PRStatus of a branch
PRStatus(branch) == [head_branch |-> branch, state |-> "open"]

\* batch[result.repo_path] = prMap, prMap[pr.head_branch] = pr
PollBatch(resp) == [r \in DOMAIN resp |-> [b \in resp[r] |-> PRStatus(b)]]

\* what a step of the polling hook, or of the store on the PR status, leaves alone
PollOp(name, out) ==
    /\ lastOp' = Op(name, out)
    /\ UNCHANGED <<sessionVars, backendVars, registryVars, scope, clockVars,
                   watcherVars, cacheVars, diffVars, listingVars, loaderVars,
                   startupVars,
                   lifecycleVars>>

\* mutant: fetchAllPRs does not look at isFetchingRef
FetchAllPRsUnguarded(closure, busy, polls) ==
    IF ~closure.ghCliAvailable \/ Len(closure.repositories) = 0
    THEN /\ isFetchingRef' = busy
         /\ pollsInFlight' = polls
    ELSE /\ isFetchingRef' = TRUE
         /\ pollsInFlight' =
               polls (+) SetToBag({[request |-> PollRequest(closure.repositories)]})

\* fetchAllPRs() of the render whose closure is given, up to its await
FetchAllPRs(closure, busy, polls) ==
    IF ~closure.ghCliAvailable \/ busy \/ Len(closure.repositories) = 0
    THEN /\ isFetchingRef' = busy
         /\ pollsInFlight' = polls
    ELSE /\ isFetchingRef' = TRUE
         /\ pollsInFlight' =
               polls (+) SetToBag({[request |-> PollRequest(closure.repositories)]})

\* "pending" when the call issued a poll, "noop" when it returned at its guard
PollOutcome == IF pollsInFlight' # pollsInFlight THEN "pending" ELSE "noop"

\* the interval fires: its callback is the fetchAllPRs it was armed with
PollTick(t) ==
    /\ t \in pollIntervals
    /\ FetchAllPRs(t.callback, isFetchingRef, pollsInFlight)
    /\ PollOp("pollTick", PollOutcome)
    /\ UNCHANGED <<ghCliAvailable, prStatusByBranch, cliChecksInFlight, pollMounted,
                   fetchAllPRs, pollingRef, pollIntervals,
                   results>>

\* refresh(): the fetchAllPRs of the latest render
PollRefresh ==
    /\ pollMounted
    /\ FetchAllPRs(fetchAllPRs, isFetchingRef, pollsInFlight)
    /\ PollOp("refresh", PollOutcome)
    /\ UNCHANGED <<ghCliAvailable, prStatusByBranch, cliChecksInFlight, pollMounted,
                   fetchAllPRs, pollingRef, pollIntervals,
                   results>>

\* mutant: the batch is merged into the map the store holds
SetPRStatusBatchMerges(batch) ==
    prStatusByBranch' =
        [r \in DOMAIN prStatusByBranch \cup DOMAIN batch |->
            IF r \in DOMAIN batch THEN batch[r] ELSE prStatusByBranch[r]]

\* set({ prStatusByBranch: batch })
SetPRStatusBatch(batch) == prStatusByBranch' = batch

\* the poll resolved: the batch is built from the results and handed to
\* setPRStatusBatch; finally isFetchingRef.current = false
PollResolved(p, resp) ==
    /\ BagIn(p, pollsInFlight)
    /\ resp \in PollResponses(p.request)
    /\ pollsInFlight' = pollsInFlight (-) SetToBag({p})
    /\ SetPRStatusBatch(PollBatch(resp))
    /\ isFetchingRef' = FALSE
    /\ results' = resp
    /\ PollOp("fetchAllPRs", "resolved")
    /\ UNCHANGED <<ghCliAvailable, cliChecksInFlight, pollMounted, fetchAllPRs,
                   pollingRef, pollIntervals>>

\* mutant: no finally block, so a rejected poll leaves isFetchingRef.current set
PollRejectedKeepsGuard(p) ==
    /\ BagIn(p, pollsInFlight)
    /\ pollsInFlight' = pollsInFlight (-) SetToBag({p})
    /\ PollOp("fetchAllPRs", "logged")
    /\ UNCHANGED <<ghCliAvailable, prStatusByBranch, cliChecksInFlight, pollMounted,
                   fetchAllPRs, isFetchingRef, pollingRef, pollIntervals,
                   results>>

\* the poll rejected: console.error; finally isFetchingRef.current = false
PollRejected(p) ==
    /\ BagIn(p, pollsInFlight)
    /\ pollsInFlight' = pollsInFlight (-) SetToBag({p})
    /\ isFetchingRef' = FALSE
    /\ PollOp("fetchAllPRs", "logged")
    /\ UNCHANGED <<ghCliAvailable, prStatusByBranch, cliChecksInFlight, pollMounted,
                   fetchAllPRs, pollingRef, pollIntervals,
                   results>>

\* checkGitHubCli: await invoke('check_gh_cli')
CheckGitHubCli ==
    /\ cliChecksInFlight < MaxCliChecks
    /\ cliChecksInFlight' = cliChecksInFlight + 1
    /\ PollOp("checkGitHubCli", "pending")
    /\ UNCHANGED <<ghCliAvailable, prStatusByBranch, pollMounted, fetchAllPRs,
                   isFetchingRef, pollingRef, pollIntervals, pollsInFlight,
                   results>>

\* the check settled: ghCliAvailable is what it answered, false when it failed
CliChecked(available) ==
    /\ cliChecksInFlight > 0
    /\ cliChecksInFlight' = cliChecksInFlight - 1
    /\ ghCliAvailable' = available
    /\ PollOp("checkGitHubCli", "resolved")
    /\ UNCHANGED <<prStatusByBranch, pollMounted, fetchAllPRs, isFetchingRef,
                   pollingRef, pollIntervals, pollsInFlight,
                   results>>

\* clearInterval(id)
ClearInterval(intervals, id) == {t \in intervals : t.id # id}

\* the id setInterval returns: one no armed interval has
FreshIntervalId(intervals) ==
    CHOOSE i \in 1..(Cardinality(intervals) + 1) :
        /\ \A t \in intervals : t.id # i
        /\ \A j \in 1..(i - 1) : \E t \in intervals : t.id = j

\* the effect of the previous render returned a cleanup iff it passed its
\* early return
CleanedUp(intervals) ==
    IF fetchAllPRs.ghCliAvailable THEN ClearInterval(intervals, pollingRef) ELSE intervals

\* the step just taken called set with a new repositories array
RepositoriesJustSet ==
    /\ lastOp.out \in {"resolved", "done"}
    /\ lastOp.op \in {"addRepository", "removeRepository", "refreshWorktrees",
                      "createWorktreeAuto", "deleteWorktree", "updateWorktreeBranch",
                      "initialize"}

\* a dependency of the polling effect changed: the store notifies React, which
\* renders the component again before anything else runs
PollEffectDue ==
    /\ pollMounted
    /\ \/ RepositoriesJustSet
       \/ fetchAllPRs.ghCliAvailable # ghCliAvailable

\* the render after a dependency changed: useCallback makes a new fetchAllPRs,
\* the cleanup of the previous effect runs, then the effect: return when the
\* flag is off, else fetchAllPRs(), clearInterval(pollingRef.current) and
\* pollingRef.current = setInterval(fetchAllPRs, pollingIntervalMs)
PollRender ==
    LET closure == [repositories |-> repositories, ghCliAvailable |-> ghCliAvailable]
        kept == ClearInterval(CleanedUp(pollIntervals), pollingRef)
        id == FreshIntervalId(kept)
    IN /\ PollEffectDue
       /\ fetchAllPRs' = closure
       /\ IF ~ghCliAvailable
          THEN /\ pollIntervals' = CleanedUp(pollIntervals)
               /\ UNCHANGED <<pollingRef, isFetchingRef, pollsInFlight>>
          ELSE /\ FetchAllPRs(closure, isFetchingRef, pollsInFlight)
               /\ pollIntervals' = kept \cup {[id |-> id, callback |-> closure]}
               /\ pollingRef' = id
       /\ PollOp("usePRStatusPolling", PollOutcome)
       /\ UNCHANGED <<ghCliAvailable, prStatusByBranch, cliChecksInFlight, pollMounted,
                   results>>

\* the component unmounts: the cleanup of the last effect runs
PollUnmount ==
    /\ pollMounted
    /\ pollMounted' = FALSE
    /\ pollIntervals' = CleanedUp(pollIntervals)
    /\ PollOp("usePRStatusPolling", "unmounted")
    /\ UNCHANGED <<ghCliAvailable, prStatusByBranch, cliChecksInFlight, fetchAllPRs,
                   isFetchingRef, pollingRef, pollsInFlight,
                   results>>

\* the app with r1 registered and the polling hook mounted, before the
\* GitHub CLI has been looked for
InitPoll ==
    /\ SessionsCreated
    /\ repositories = <<WatchedRepository>>
    /\ persistedPaths = <<WatchedRepository.path>>
    /\ savesInFlight = <<>>
    /\ registryCalls = EmptyBag
    /\ gitWorktrees = [InitialGitWorktrees EXCEPT !["r1"] = WatchedRepository.worktrees]
    /\ isInitialized = TRUE
    /\ initializeCalls = EmptyBag
    /\ lastOp = Op("usePRStatusPolling", "mounted")
    /\ watcherMounted = FALSE
    /\ WatcherIdle
    /\ CodeReviewIdle
    /\ ListingIdle
    /\ LoaderIdle
    /\ WatchingIdle
    /\ ghCliAvailable = FALSE
    /\ prStatusByBranch = [r \in {} |-> [b \in {} |-> NULL]]
    /\ cliChecksInFlight = 0
    /\ pollMounted = TRUE
    /\ fetchAllPRs = [repositories |-> <<WatchedRepository>>, ghCliAvailable |-> FALSE]
    /\ isFetchingRef = FALSE
    /\ pollingRef = 0
    /\ pollIntervals = {}
    /\ pollsInFlight = EmptyBag
    /\ results = NoResults
    /\ scope = "poll"

\* the repository the user adds while the hook polls, and the one removed
PollAddedPaths == {"r2"}
PollRemovedPaths == {"r1"}

PollNext ==
    \/ PollRender
    \/ ~PollEffectDue /\ \E t \in pollIntervals : PollTick(t)
    \/ ~PollEffectDue /\ PollRefresh
    \/ ~PollEffectDue /\ \E p \in BagToSet(pollsInFlight) :
                            \E resp \in PollResponses(p.request) : PollResolved(p, resp)
    \/ ~PollEffectDue /\ \E p \in BagToSet(pollsInFlight) : PollRejected(p)
    \/ ~PollEffectDue /\ CheckGitHubCli
    \/ ~PollEffectDue /\ \E available \in BOOLEAN : CliChecked(available)
    \/ ~PollEffectDue /\ PollUnmount
    \/ ~PollEffectDue /\ \E path \in PollAddedPaths : AddRepository(path)
    \/ ~PollEffectDue /\ \E c \in BagToSet(registryCalls) : AddRepositoryDiscovered(c)
    \/ ~PollEffectDue /\ \E c \in BagToSet(registryCalls) : AddRepositoryListed(c)
    \/ ~PollEffectDue /\ \E path \in PollRemovedPaths : RemoveRepository(path)
    \/ ~PollEffectDue /\ \E c \in BagToSet(registryCalls) : RegistryCallReject(c)
    \/ ~PollEffectDue /\ \E ok \in BOOLEAN : SaveSettle(ok)

SpecPoll == InitPoll /\ [][PollNext]_vars

\* C12: a batch poll is issued only in a step of the interval, of refresh() or
\* of the effect, only while ghCliAvailable holds and no poll is in flight, so
\* there are never two in flight; a tick or refresh() that meets a poll in
\* flight changes nothing, and when that poll settles nothing is in flight
C12_PollGuard ==
    [][ /\ BagCardinality(pollsInFlight') <= 1
        /\ BagCardinality(pollsInFlight') > BagCardinality(pollsInFlight)
              => /\ ghCliAvailable
                 /\ pollsInFlight = EmptyBag
                 /\ lastOp'.op \in {"pollTick", "refresh", "usePRStatusPolling"}
        /\ (pollsInFlight # EmptyBag /\ lastOp'.op \in {"pollTick", "refresh"})
              => /\ lastOp'.out = "noop"
                 /\ UNCHANGED pollVars
        /\ BagCardinality(pollsInFlight') < BagCardinality(pollsInFlight)
              => pollsInFlight' = EmptyBag
      ]_vars

\* C12 witness: an interval tick met a poll in flight and was skipped
C12_Witness ==
    /\ lastOp = Op("pollTick", "noop")
    /\ ghCliAvailable
    /\ isFetchingRef
    /\ BagCardinality(pollsInFlight) = 1

StatusEntries(map) == UNION {{<<r, b>> : b \in DOMAIN map[r]} : r \in DOMAIN map}
ResultEntries(resp) == UNION {{<<r, b>> : b \in resp[r]} : r \in DOMAIN resp}

\* C13: the step in which a batch poll resolves leaves in prStatusByBranch
\* exactly the repositories and the (repo, branch) entries of that poll's
\* results, each with the PR status the results gave it, whatever the map held
C13_WholesaleReplace ==
    [][ lastOp' = Op("fetchAllPRs", "resolved")
          => /\ DOMAIN prStatusByBranch' = DOMAIN results'
             /\ StatusEntries(prStatusByBranch') = ResultEntries(results')
             /\ \A e \in ResultEntries(results') :
                   prStatusByBranch'[e[1]][e[2]] = PRStatus(e[2])
      ]_vars

\* C13 witness: a poll resolved without an entry the map held before it
C13_Witness ==
    /\ lastOp = Op("fetchAllPRs", "resolved")
    /\ results = [r \in {"r2"} |-> {}]
    /\ prStatusByBranch = [r \in {"r2"} |-> [b \in {} |-> NULL]]

----------------------------------------------------------------------------
\* refreshWorktrees and updateWorktreeBranch on a registry with a selected
\* worktree, while git changes underneath

\* the branches a worktree is switched to outside the app; NULL is a detached HEAD
CheckoutBranches == {"feat", NULL}

\* the repository whose worktrees are switched
CheckoutRepoPaths == {"r1"}

\* collaborator: git checkout in a worktree, from a terminal or outside the app
ExternalCheckout(repoPath, worktreePath, branch) ==
    /\ worktreePath \in WorktreePathsOf(gitWorktrees[repoPath])
    /\ GitBranchOf(worktreePath) # branch
    /\ gitWorktrees' = [gitWorktrees EXCEPT
                           ![repoPath] = WithBranch(@, worktreePath, branch)]
    /\ RegistryOp("git checkout", "done")
    /\ UNCHANGED <<selectedWorktree, repositories, persistedPaths, savesInFlight,
                   registryCalls>>

\* r1 and r2 are registered and wA is selected, with the terminal its
\* selection spawned
InitWorktrees ==
    /\ selectedWorktree = [path |-> "wA", branch |-> "main"]
    /\ terminalsByWorktree =
          [p \in {"wA"} |->
              [terminals |-> <<TerminalInstance(1, [path |-> "wA", branch |-> "main"])>>,
               activeTerminalId |-> 1]]
    /\ currentTerminals = <<TerminalInstance(1, [path |-> "wA", branch |-> "main"])>>
    /\ currentActiveTerminalId = 1
    /\ spawnsInFlight = EmptyBag
    /\ nextTerminalId = 2
    /\ closePending = 0
    /\ prDataCache = [k \in {} |-> NoEntry]
    /\ lastRead = NoRead
    /\ suppliedAt = [k \in {} |-> NeverSupplied]
    /\ now = 0
    /\ clockSteps = 0
    /\ repositories = [i \in 1..2 |->
                          [path |-> <<"r1", "r2">>[i],
                           worktrees |-> InitialGitWorktrees[<<"r1", "r2">>[i]]]]
    /\ persistedPaths = <<"r1", "r2">>
    /\ savesInFlight = <<>>
    /\ registryCalls = EmptyBag
    /\ gitWorktrees = InitialGitWorktrees
    /\ isInitialized = TRUE
    /\ initializeCalls = EmptyBag
    /\ lastOp = Op("selectWorktree", "resolved")
    /\ HooksUnmounted
    /\ scope = "worktrees"

WorktreesNext ==
    \/ \E repoPath \in RepoPaths : RefreshWorktrees(repoPath)
    \/ \E c \in BagToSet(registryCalls) : WorktreesListed(c)
    \/ \E repoPath \in RepoPaths :
          \E wt \in WorktreePathsOf(gitWorktrees[repoPath]) : UpdateWorktreeBranch(wt)
    \/ \E c \in BagToSet(registryCalls) : BranchNameResolved(c)
    \/ \E repoPath \in RepoPaths : CreateWorktreeAuto(repoPath)
    \/ \E c \in BagToSet(registryCalls) : WorktreeCreated(c)
    \/ \E repoPath \in RepoPaths, name \in WorktreeNames : DeleteWorktree(repoPath, name)
    \/ \E c \in BagToSet(registryCalls) : WorktreeDeleted(c)
    \/ \E c \in BagToSet(registryCalls) : RegistryCallReject(c)
    \/ \E repoPath \in CheckoutRepoPaths, branch \in CheckoutBranches :
          \E wt \in WorktreePathsOf(gitWorktrees[repoPath]) :
             ExternalCheckout(repoPath, wt, branch)

SpecWorktrees == InitWorktrees /\ [][WorktreesNext]_vars

\* the paths of the repositories in the registry
RegisteredPaths == SeqRange(PathsOf(repositories))

C16_BranchFrame ==
    [][ lastOp' = Op("updateWorktreeBranch", "resolved")
          => \E c \in BagToSet(registryCalls) :
                /\ c.op = "updateWorktreeBranch"
                /\ registryCalls' = registryCalls (-) SetToBag({c})
                /\ PathsOf(repositories') = PathsOf(repositories)
                /\ \A i \in 1..Len(repositories) :
                      /\ Len(repositories'[i].worktrees) = Len(repositories[i].worktrees)
                      /\ \A k \in 1..Len(repositories[i].worktrees) :
                            LET old == repositories[i].worktrees[k]
                                new == repositories'[i].worktrees[k]
                            IN IF old.path = c.path
                               THEN new = [path |-> old.path, branch |-> GitBranchOf(c.path)]
                               ELSE new = old
                /\ IF selectedWorktree.path = c.path
                   THEN /\ selectedWorktree' =
                              [path |-> c.path, branch |-> GitBranchOf(c.path)]
                        /\ \A i \in 1..Len(repositories') :
                              \A k \in 1..Len(repositories'[i].worktrees) :
                                 repositories'[i].worktrees[k].path = c.path
                                    => repositories'[i].worktrees[k].branch =
                                          selectedWorktree'.branch
                   ELSE selectedWorktree' = selectedWorktree
                /\ UNCHANGED <<terminalsByWorktree, currentTerminals,
                               currentActiveTerminalId, backendVars, cacheVars, pollVars,
                               persistedPaths, savesInFlight, gitWorktrees>>
      ]_vars

\* C16 witness: updateWorktreeBranch wrote the branch checked out in the
\* selected worktree into the registry and into the snapshot, next to a
\* second worktree of the same repository
C16_Witness ==
    /\ lastOp = Op("updateWorktreeBranch", "resolved")
    /\ selectedWorktree = [path |-> "wA", branch |-> "feat"]
    /\ Len(repositories) = 2
    /\ repositories[1].worktrees = <<[path |-> "wA", branch |-> "feat"], AutoWorktree("r1")>>

----------------------------------------------------------------------------
\* initialize: the registry is rebuilt from the persisted path list

\* initialize() calls at an await at once
MaxInitializeCalls == 2

\* the locals of an initialize() call at an await: the path the loop is at and
\* the persisted paths it has still to visit
InitializeCall(phase, path, rest) == [phase |-> phase, path |-> path, rest |-> rest]

\* what a step of initialize leaves alone
InitializeOp(out) ==
    /\ lastOp' = Op("initialize", out)
    /\ UNCHANGED <<sessionVars, backendVars, persistedPaths, savesInFlight, registryCalls,
                   gitWorktrees, scope, clockVars, watcherVars, cacheVars, diffVars,
                   listingVars, loaderVars, ghCliAvailable, prStatusByBranch,
                   pollMounted, fetchAllPRs, isFetchingRef, pollingRef, pollIntervals,
                   pollsInFlight, results, lifecycleVars>>

\* if (get().isInitialized) return
InitializeSkipped ==
    /\ isInitialized
    /\ InitializeOp("noop")
    /\ UNCHANGED <<repositories, cliChecksInFlight, startupVars>>

\* const persisted = await loadPersistedState()
Initialize ==
    /\ ~isInitialized
    /\ BagCardinality(initializeCalls) < MaxInitializeCalls
    /\ initializeCalls' = initializeCalls (+) SetToBag({InitializeCall("load", NULL, <<>>)})
    /\ InitializeOp("pending")
    /\ UNCHANGED <<repositories, cliChecksInFlight, isInitialized>>

\* the for loop moves to its next path, or ends: set({ isInitialized: true })
\* and get().checkGitHubCli(), which is not awaited
InitializeLoop(c, rest) ==
    IF rest = <<>>
    THEN /\ initializeCalls' = initializeCalls (-) SetToBag({c})
         /\ isInitialized' = TRUE
         /\ cliChecksInFlight' = cliChecksInFlight + 1
    ELSE /\ initializeCalls' = (initializeCalls (-) SetToBag({c}))
                                  (+) SetToBag({InitializeCall("discover", Head(rest), Tail(rest))})
         /\ UNCHANGED <<isInitialized, cliChecksInFlight>>

\* loadPersistedState settled: the persisted paths, or [] when the load failed
InitializeLoaded(c, ok) ==
    /\ BagIn(c, initializeCalls)
    /\ c.phase = "load"
    /\ InitializeLoop(c, IF ok THEN persistedPaths ELSE <<>>)
    /\ InitializeOp(IF ok /\ persistedPaths # <<>> THEN "pending" ELSE "initialized")
    /\ UNCHANGED repositories

\* const worktrees = await invoke('list_worktrees', { repoPath: info.path })
InitializeDiscovered(c) ==
    /\ BagIn(c, initializeCalls)
    /\ c.phase = "discover"
    /\ initializeCalls' = (initializeCalls (-) SetToBag({c}))
                             (+) SetToBag({InitializeCall("list", DiscoverInfo(c.path).path, c.rest)})
    /\ InitializeOp("pending")
    /\ UNCHANGED <<repositories, cliChecksInFlight, isInitialized>>

\* set((state) => ({ repositories: [...filter, { info, worktrees }] })), with
\* no savePersistedState, then the loop goes on
InitializeListed(c) ==
    /\ BagIn(c, initializeCalls)
    /\ c.phase = "list"
    /\ repositories' = UpsertRepository(repositories, c.path, gitWorktrees[c.path])
    /\ InitializeLoop(c, c.rest)
    /\ InitializeOp("resolved")

\* mutant: the rejection is not caught inside the loop, so it ends the call
\* before set({ isInitialized: true })
InitializeFailedLeavesLoop(c) ==
    /\ BagIn(c, initializeCalls)
    /\ c.phase \in {"discover", "list"}
    /\ initializeCalls' = initializeCalls (-) SetToBag({c})
    /\ InitializeOp("logged")
    /\ UNCHANGED <<repositories, isInitialized, cliChecksInFlight>>

\* discover_repository or list_worktrees rejected: console.error, and the loop
\* goes on
InitializeFailed(c) ==
    /\ BagIn(c, initializeCalls)
    /\ c.phase \in {"discover", "list"}
    /\ InitializeLoop(c, c.rest)
    /\ InitializeOp("logged")
    /\ UNCHANGED repositories

\* the store of an earlier run of the app, which closed with r1 registered
InitStartup ==
    /\ SessionsCreated
    /\ repositories = <<>>
    /\ persistedPaths = <<"r1">>
    /\ savesInFlight = <<>>
    /\ registryCalls = EmptyBag
    /\ gitWorktrees = InitialGitWorktrees
    /\ isInitialized = FALSE
    /\ initializeCalls = EmptyBag
    /\ lastOp = Op("create", "done")
    /\ HooksUnmounted
    /\ scope = "startup"

StartupNext ==
    \/ Initialize
    \/ InitializeSkipped
    \/ \E c \in BagToSet(initializeCalls), ok \in BOOLEAN : InitializeLoaded(c, ok)
    \/ \E c \in BagToSet(initializeCalls) : InitializeDiscovered(c)
    \/ \E c \in BagToSet(initializeCalls) : InitializeListed(c)
    \/ \E c \in BagToSet(initializeCalls) : InitializeFailed(c)
    \/ \E path \in RepoPaths : AddRepository(path)
    \/ \E c \in BagToSet(registryCalls) : AddRepositoryDiscovered(c)
    \/ \E c \in BagToSet(registryCalls) : AddRepositoryListed(c)
    \/ \E c \in BagToSet(registryCalls) : RegistryCallReject(c)
    \/ \E ok \in BOOLEAN : SaveSettle(ok)
    \/ \E available \in BOOLEAN : CliChecked(available)

SpecStartup == InitStartup /\ [][StartupNext]_vars

\* every call has returned and every save has settled
RegistryQuiet ==
    /\ initializeCalls = EmptyBag
    /\ registryCalls = EmptyBag
    /\ savesInFlight = <<>>

\* C14: at every moment no two entries of the registry have the same path,
\* and once initialize has completed and every call and save has settled the
\* persisted path list is the list of the registry's paths
C14_UpsertAndPersist ==
    /\ \A i, j \in 1..Len(repositories) :
          repositories[i].path = repositories[j].path => i = j
    /\ (isInitialized /\ RegistryQuiet) => persistedPaths = PathsOf(repositories)

\* the store of an earlier run of the app, which closed with r1 and r2
\* registered
InitLoad ==
    /\ SessionsCreated
    /\ repositories = <<>>
    /\ persistedPaths = <<"r1", "r2">>
    /\ savesInFlight = <<>>
    /\ registryCalls = EmptyBag
    /\ gitWorktrees = InitialGitWorktrees
    /\ isInitialized = FALSE
    /\ initializeCalls = EmptyBag
    /\ lastOp = Op("create", "done")
    /\ HooksUnmounted
    /\ scope = "load"

\* initialize() alone, each of its awaited calls resolving or rejecting
InitializeNext ==
    \/ Initialize
    \/ InitializeSkipped
    \/ \E c \in BagToSet(initializeCalls), ok \in BOOLEAN : InitializeLoaded(c, ok)
    \/ \E c \in BagToSet(initializeCalls) : InitializeDiscovered(c)
    \/ \E c \in BagToSet(initializeCalls) : InitializeListed(c)
    \/ \E c \in BagToSet(initializeCalls) : InitializeFailed(c)
    \/ \E available \in BOOLEAN : CliChecked(available)

SpecInitialize == InitLoad /\ [][InitializeNext]_vars

\* the initialize() call c has returned or moved on in this step
InitializeLeft(c) ==
    CopiesIn(c, initializeCalls') < CopiesIn(c, initializeCalls)

\* C26: every initialize() call that returns leaves isInitialized true; when
\* loading the persisted settings fails the call returns at once and adds no
\* repository; when discover_repository or list_worktrees fails for a path the
\* registry is left as it was and the call goes on to the next persisted path
\* (or returns when there is none); and a path that is discovered and listed
\* enters the registry with its worktrees, the other entries staying
C26_StartupNeverBlocked ==
    [][ /\ BagCardinality(initializeCalls') < BagCardinality(initializeCalls)
           => isInitialized'
        /\ \A c \in BagToSet(initializeCalls) :
              InitializeLoaded(c, FALSE)
                 => /\ isInitialized'
                    /\ repositories' = repositories
                    /\ BagCardinality(initializeCalls') = BagCardinality(initializeCalls) - 1
        /\ lastOp' = Op("initialize", "logged")
           => /\ repositories' = repositories
              /\ \E c \in BagToSet(initializeCalls) :
                    /\ c.phase \in {"discover", "list"}
                    /\ InitializeLeft(c)
                    /\ IF c.rest = <<>>
                       THEN isInitialized'
                       ELSE CopiesIn(InitializeCall("discover", Head(c.rest), Tail(c.rest)),
                                     initializeCalls')
                               > CopiesIn(InitializeCall("discover", Head(c.rest), Tail(c.rest)),
                                          initializeCalls)
        /\ lastOp' = Op("initialize", "resolved")
           => \E c \in BagToSet(initializeCalls) :
                 /\ c.phase = "list"
                 /\ InitializeLeft(c)
                 /\ \E i \in 1..Len(repositories') :
                       repositories'[i] = [path |-> c.path, worktrees |-> gitWorktrees[c.path]]
                 /\ \A j \in 1..Len(repositories) :
                       repositories[j].path # c.path
                          => \E i \in 1..Len(repositories') : repositories'[i] = repositories[j]
      ]_vars

\* C26 witness: r1 failed to load, r2 was loaded after it and the call
\* returned with the store initialized
C26_Witness ==
    /\ lastOp = Op("initialize", "resolved")
    /\ persistedPaths = <<"r1", "r2">>
    /\ PathsOf(repositories) = <<"r2">>
    /\ initializeCalls = EmptyBag
    /\ registryCalls = EmptyBag
    /\ isInitialized

----------------------------------------------------------------------------
\* useGitWatcher: the listener effect and the watch-registration effect

\* listen(...) calls awaited at once
MaxListenCalls == 2

\* what a step of the two effects leaves alone
WatchingOp(name, out) ==
    /\ lastOp' = Op(name, out)
    /\ UNCHANGED <<sessionVars, backendVars, registryVars, scope, clockVars,
                   watcherVars, cacheVars, diffVars, listingVars, loaderVars,
                   pollVars, startupVars>>

\* the id of a new subscription: one no live subscription has
FreshSubscriptionId ==
    CHOOSE i \in 1..(Cardinality(subscriptions) + 1) :
        /\ \A s \in subscriptions : s.id # i
        /\ \A j \in 1..(i - 1) : \E s \in subscriptions : s.id = j

\* setupListeners() of a new effect run (mounted = true) up to its first
\* await, next to the calls already awaited: listen('git-head-changed') when
\* unlistenHeadRef.current is null, else listen('worktree-changed') when
\* unlistenWorktreeRef.current is null, else nothing
SetupListeners(calls) ==
    listenCalls' =
        IF unlistenHeadRef = 0
        THEN calls (+) SetToBag({[event |-> "git-head-changed", mounted |-> TRUE]})
        ELSE IF unlistenWorktreeRef = 0
             THEN calls (+) SetToBag({[event |-> "worktree-changed", mounted |-> TRUE]})
             ELSE calls

\* a dependency of an effect of the hook changed: the store notifies React,
\* which renders the component again before anything else runs
WatchEffectDue ==
    /\ watcherMounted
    /\ \/ RepositoriesJustSet
       \/ renderedInitialized # isInitialized

\* the render after isInitialized or repositories changed. useMemo recomputes
\* repoWorktreeSignature, a new array; the listener effect runs when
\* isInitialized changed; the registration effect runs because one of
\* isInitialized and repoWorktreeSignature is not the value of the last render
WatcherRender ==
    /\ WatchEffectDue
    /\ renderedInitialized' = isInitialized
    /\ repoWorktreeSignature' = Signature(repositories)
    /\ IF renderedInitialized # isInitialized /\ isInitialized
       THEN SetupListeners(listenCalls)
       ELSE UNCHANGED listenCalls
    /\ startWatching' = StartWatching(isInitialized, repositories)
    /\ WatchingOp("useGitWatcher", IF startWatching' # {} THEN "registered" ELSE "rendered")
    /\ UNCHANGED <<unlistenHeadRef, unlistenWorktreeRef, subscriptions>>

\* React runs the listener effect again on the mounted component with the
\* refs it has (cleanup, then setup): mounted = false for the listeners of the
\* previous run, and setupListeners() once more
ListenerEffectRerun ==
    /\ watcherMounted
    /\ renderedInitialized
    /\ BagCardinality(listenCalls) < MaxListenCalls
    /\ subscriptions' = CleanedUpListeners(subscriptions)
    /\ SetupListeners(CleanedUpCalls(listenCalls))
    /\ WatchingOp("setupListeners",
                  IF unlistenHeadRef = 0 \/ unlistenWorktreeRef = 0 THEN "pending" ELSE "noop")
    /\ UNCHANGED <<renderedInitialized, repoWorktreeSignature, startWatching,
                   unlistenHeadRef, unlistenWorktreeRef>>

\* listen(...) resolved: the subscription is live and its unlisten function is
\* stored in the ref; after 'git-head-changed', setupListeners goes on to
\* 'worktree-changed' when unlistenWorktreeRef.current is null
ListenResolved(c) ==
    /\ BagIn(c, listenCalls)
    /\ subscriptions' = subscriptions \cup
           {[event |-> c.event, id |-> FreshSubscriptionId, mounted |-> c.mounted]}
    /\ IF c.event = "git-head-changed"
       THEN /\ unlistenHeadRef' = FreshSubscriptionId
            /\ listenCalls' =
                  IF unlistenWorktreeRef = 0
                  THEN (listenCalls (-) SetToBag({c}))
                          (+) SetToBag({[event |-> "worktree-changed",
                                         mounted |-> c.mounted]})
                  ELSE listenCalls (-) SetToBag({c})
            /\ UNCHANGED unlistenWorktreeRef
       ELSE /\ unlistenWorktreeRef' = FreshSubscriptionId
            /\ listenCalls' = listenCalls (-) SetToBag({c})
            /\ UNCHANGED unlistenHeadRef
    /\ WatchingOp("setupListeners", "resolved")
    /\ UNCHANGED <<renderedInitialized, repoWorktreeSignature, startWatching>>

\* listen(...) rejected: setupListeners() ends there, nothing catches it
ListenRejected(c) ==
    /\ BagIn(c, listenCalls)
    /\ listenCalls' = listenCalls (-) SetToBag({c})
    /\ WatchingOp("setupListeners", "error")
    /\ UNCHANGED <<renderedInitialized, repoWorktreeSignature, startWatching,
                   unlistenHeadRef, unlistenWorktreeRef, subscriptions>>

\* the app starts on the store of an earlier run that closed with r1
\* registered; the hook is mounted and its effects returned at !isInitialized
InitWatching ==
    /\ SessionsCreated
    /\ repositories = <<>>
    /\ persistedPaths = <<"r1">>
    /\ savesInFlight = <<>>
    /\ registryCalls = EmptyBag
    /\ gitWorktrees = InitialGitWorktrees
    /\ isInitialized = FALSE
    /\ initializeCalls = EmptyBag
    /\ lastOp = Op("useGitWatcher", "mounted")
    /\ watcherMounted = TRUE
    /\ WatcherIdle
    /\ CodeReviewIdle
    /\ ListingIdle
    /\ LoaderIdle
    /\ PollIdle
    /\ WatchingIdle
    /\ scope = "watching"

\* the repository whose worktrees change while the hook watches
WatchingRepoPaths == {"r1"}

\* the branch checked out in one of its worktrees meanwhile
WatchingBranches == {"feat"}

WatchingNext ==
    \/ WatcherRender
    \/ ~WatchEffectDue /\ ListenerEffectRerun
    \/ ~WatchEffectDue /\ \E c \in BagToSet(listenCalls) : ListenResolved(c)
    \/ ~WatchEffectDue /\ \E c \in BagToSet(listenCalls) : ListenRejected(c)
    \/ ~WatchEffectDue /\ WatcherUnmount
    \/ ~WatchEffectDue /\ Initialize
    \/ ~WatchEffectDue /\ \E c \in BagToSet(initializeCalls) : InitializeLoaded(c, TRUE)
    \/ ~WatchEffectDue /\ \E c \in BagToSet(initializeCalls) : InitializeDiscovered(c)
    \/ ~WatchEffectDue /\ \E c \in BagToSet(initializeCalls) : InitializeListed(c)
    \/ ~WatchEffectDue /\ \E c \in BagToSet(initializeCalls) : InitializeFailed(c)
    \/ ~WatchEffectDue /\ \E repoPath \in WatchingRepoPaths, branch \in WatchingBranches :
          \E wt \in WorktreePathsOf(gitWorktrees[repoPath]) :
             ExternalCheckout(repoPath, wt, branch)
    \/ ~WatchEffectDue /\ \E repoPath \in WatchingRepoPaths :
          \E wt \in WorktreePathsOf(gitWorktrees[repoPath]) : UpdateWorktreeBranch(wt)
    \/ ~WatchEffectDue /\ \E c \in BagToSet(registryCalls) : BranchNameResolved(c)
    \/ ~WatchEffectDue /\ \E repoPath \in WatchingRepoPaths : CreateWorktreeAuto(repoPath)
    \/ ~WatchEffectDue /\ \E c \in BagToSet(registryCalls) : WorktreeCreated(c)
    \/ ~WatchEffectDue /\ \E c \in BagToSet(registryCalls) : WorktreesListed(c)
    \/ ~WatchEffectDue /\ \E c \in BagToSet(registryCalls) : RegistryCallReject(c)

SpecWatching == InitWatching /\ [][WatchingNext]_vars

\* C17: an effect run issues start_watching_repository calls only in a render
\* in which isInitialized or the signature of the registry (per repository its
\* path and its sorted worktree paths) differs from that of the render before
C17_RegisterOnSignatureChange ==
    [][ (lastOp' = Op("useGitWatcher", "registered") /\ startWatching' # {})
          => \/ renderedInitialized' # renderedInitialized
             \/ repoWorktreeSignature' # repoWorktreeSignature
      ]_vars

\* C18: at every moment at most one subscription to git-head-changed and at
\* most one to worktree-changed is live
C18_OneSubscriptionPerEvent ==
    /\ Cardinality(LiveSubscriptions("git-head-changed")) <= 1
    /\ Cardinality(LiveSubscriptions("worktree-changed")) <= 1

\* C19: once the component is torn down, no step starts a call of
\* updateWorktreeBranch or refreshWorktrees from a debounce timer, and no step
\* starts a batch poll
C19_NoTimerAfterTeardown ==
    [][ /\ ~watcherMounted
           => ~ /\ lastOp'.op \in {"updateWorktreeBranch", "refreshWorktrees"}
                /\ lastOp'.out = "pending"
                /\ timers' # timers
        /\ ~pollMounted /\ scope = "poll"
           => BagCardinality(pollsInFlight') <= BagCardinality(pollsInFlight)
      ]_vars

\* C30: once the hook has unmounted and no listen call is awaited, no
\* subscription of the hook is live
C30_NoSubscriptionAfterTeardown ==
    (~watcherMounted /\ listenCalls = EmptyBag) => subscriptions = {}

----------------------------------------------------------------------------
\* The user actions that await the collaborator. Terminal sessions and the
\* registry share no field that either reads of the other (selectWorktree never
\* looks at repositories, no registry operation looks at the sessions), so a
\* behaviour exercises one of the two parts; scope says which
UserActionNext ==
    \/ scope = "sessions" /\ \E w \in WorktreeInputs : SelectWorktree(w)
    \/ scope = "sessions" /\ \E c \in BagToSet(spawnsInFlight) : SelectWorktreeResolve(c)
    \/ scope = "sessions" /\ AddTerminal
    \/ scope = "sessions" /\ \E cmd \in Commands : AddTerminalWithCommand(cmd)
    \/ scope = "sessions" /\ \E c \in BagToSet(spawnsInFlight) : AddTerminalResolve(c)
    \/ scope = "sessions" /\ \E c \in BagToSet(spawnsInFlight) :
                                 AddTerminalWithCommandResolve(c)
    \/ scope = "sessions" /\ \E c \in BagToSet(spawnsInFlight) : SpawnReject(c)
    \/ scope = "registry" /\ \E path \in RepoPaths : AddRepository(path)
    \/ scope = "registry" /\ \E c \in BagToSet(registryCalls) : AddRepositoryDiscovered(c)
    \/ scope = "registry" /\ \E c \in BagToSet(registryCalls) : AddRepositoryListed(c)
    \/ scope = "registry" /\ \E repoPath \in RepoPaths : CreateWorktreeAuto(repoPath)
    \/ scope = "registry" /\ \E repoPath \in RepoPaths, name \in WorktreeNames :
                                 DeleteWorktree(repoPath, name)
    \/ scope = "registry" /\ \E c \in BagToSet(registryCalls) : WorktreeCreated(c)
    \/ scope = "registry" /\ \E c \in BagToSet(registryCalls) : WorktreeDeleted(c)
    \/ scope = "registry" /\ \E c \in BagToSet(registryCalls) : WorktreesListed(c)
    \/ scope = "registry" /\ \E c \in BagToSet(registryCalls) : RegistryCallReject(c)
    \/ scope = "registry" /\ \E ok \in BOOLEAN : SaveSettle(ok)

InitUserActions ==
    /\ StoreCreated
    /\ HooksUnmounted
    /\ scope \in {"sessions", "registry"}

SpecUserActions == InitUserActions /\ [][UserActionNext]_vars

\* the fields of the store a user action works on
storeVars == <<repositories, selectedWorktree, terminalsByWorktree, currentTerminals,
               currentActiveTerminalId>>

UserActions == {"selectWorktree", "addTerminal", "addTerminalWithCommand",
                "addRepository", "createWorktreeAuto", "deleteWorktree"}

\* C7: no step of a user action up to and including the rejection of its
\* awaited call changes the store (a step that awaits, and the step in which the
\* rejection reaches the caller, leave repositories, selectedWorktree,
\* terminalsByWorktree, currentTerminals and currentActiveTerminalId as they
\* were), and a call of a user action leaves flight only by resolving or by
\* handing the error to the caller
C7_FailedUserActionChangesNothing ==
    [][ /\ (lastOp'.op \in UserActions /\ lastOp'.out \in {"pending", "error"})
           => UNCHANGED storeVars
        /\ ( \/ BagCardinality(spawnsInFlight') < BagCardinality(spawnsInFlight)
             \/ BagCardinality(registryCalls') < BagCardinality(registryCalls) )
           => /\ lastOp'.out \in {"resolved", "error"}
              /\ lastOp'.out = "error" => UNCHANGED <<storeVars, nextTerminalId>>
      ]_vars

\* C7 witness: create_worktree_auto made wB, the re-list that follows it failed,
\* the error reached the caller and the registry still lists r1 without wB
C7_Witness ==
    /\ lastOp = Op("createWorktreeAuto", "error")
    /\ "wB" \in WorktreePathsOf(gitWorktrees["r1"])
    /\ \E i \in 1..Len(repositories) :
          /\ repositories[i].path = "r1"
          /\ "wB" \notin WorktreePathsOf(repositories[i].worktrees)


----------------------------------------------------------------------------
\* The session multiplexer: every store operation on terminals, with the
\* collaborator answering each call in flight in any order

Next ==
    \/ \E w \in WorktreeInputs : SelectWorktree(w)
    \/ \E c \in BagToSet(spawnsInFlight) : SelectWorktreeResolve(c)
    \/ AddTerminal
    \/ \E cmd \in Commands : AddTerminalWithCommand(cmd)
    \/ \E c \in BagToSet(spawnsInFlight) : AddTerminalResolve(c)
    \/ \E c \in BagToSet(spawnsInFlight) : AddTerminalWithCommandResolve(c)
    \/ \E c \in BagToSet(spawnsInFlight) : SpawnReject(c)
    \/ \E id \in SpawnedIds : RemoveTerminal(id)
    \/ \E ok \in BOOLEAN : CloseSettle(ok)
    \/ \E id \in SpawnedIds : SetActiveTerminal(id)

Spec == Init /\ [][Next]_vars

----------------------------------------------------------------------------
\* Properties of the session multiplexer

\* seq without the sessions whose id is terminalId, order kept
RECURSIVE WithoutId(_, _)
WithoutId(terms, terminalId) ==
    IF terms = <<>> THEN <<>>
    ELSE IF Head(terms).id = terminalId
         THEN WithoutId(Tail(terms), terminalId)
         ELSE <<Head(terms)>> \o WithoutId(Tail(terms), terminalId)

SessionsOf(path) ==
    IF path \in DOMAIN terminalsByWorktree
    THEN terminalsByWorktree[path].terminals ELSE <<>>

\* C1: in every entry of terminalsByWorktree, activeTerminalId is null or the
\* id of one of that entry's terminals
C1_ActiveIdIsASession ==
    \A p \in DOMAIN terminalsByWorktree :
        \/ terminalsByWorktree[p].activeTerminalId = NullId
        \/ terminalsByWorktree[p].activeTerminalId
              \in TerminalIdsOf(terminalsByWorktree[p].terminals)

\* C2: a selectWorktree(w) call that completes leaves w selected, and a
\* selectWorktree(w) called while w is selected (so: right after the first call
\* completed) changes no session state and issues no spawn
C2_SelectTwiceIsNoop ==
    [][\A w \in WorktreeInputs :
          /\ ( \/ SelectWorktreeAlreadySelected(w)
               \/ SelectWorktreeExisting(w)
               \/ \E c \in BagToSet(spawnsInFlight) :
                     c.worktree = w /\ SelectWorktreeResolve(c) )
             => selectedWorktree'.path = w.path
          /\ (selectedWorktree.path = w.path /\ SelectWorktree(w))
             => UNCHANGED <<sessionVars, backendVars>>
       ]_vars

\* C2 witness: selectWorktree returned early on a worktree that has sessions
C2_Witness ==
    /\ lastOp = Op("selectWorktree", "noop")
    /\ selectedWorktree # NoWorktree
    /\ Len(currentTerminals) > 0
    /\ nextTerminalId = 2

\* C3: selecting, from elsewhere, a worktree whose entry has at least one
\* session issues no backend call and shows exactly the entry's sessions and
\* active id; the entry itself is untouched
C3_SessionsSurviveSwitching ==
    [][\A w \in WorktreeInputs :
          ( /\ SelectWorktree(w)
            /\ selectedWorktree.path # w.path
            /\ w.path \in DOMAIN terminalsByWorktree
            /\ Len(terminalsByWorktree[w.path].terminals) > 0 )
          => /\ selectedWorktree' = w
             /\ currentTerminals' = terminalsByWorktree[w.path].terminals
             /\ currentActiveTerminalId' = terminalsByWorktree[w.path].activeTerminalId
             /\ UNCHANGED <<terminalsByWorktree, backendVars>>
       ]_vars

\* C3 witness: the scenario's end. wA got session 1, then session 2 which was
\* removed again; wB got session 3; wA was selected again by a switch and
\* shows [1] with 1 active, no fourth spawn issued
C3_Witness ==
    /\ lastOp = Op("selectWorktree", "done")
    /\ selectedWorktree.path = "wA"
    /\ nextTerminalId = 4
    /\ spawnsInFlight = EmptyBag
    /\ currentTerminals = <<[id |-> 1, worktreePath |-> "wA"]>>
    /\ currentActiveTerminalId = 1
    /\ SessionsOf("wA") = currentTerminals
    /\ SessionsOf("wB") = <<[id |-> 3, worktreePath |-> "wB"]>>

\* C4: removeTerminal(id) with a worktree selected removes exactly id from that
\* worktree's sessions, keeping the order of the others; if id was the entry's
\* active session the last remaining one becomes active (null if none is left),
\* otherwise the active id is unchanged
C4_RemovalPromotion ==
    [][\A id \in SpawnedIds :
          (RemoveTerminal(id) /\ selectedWorktree # NoWorktree)
          => LET p == selectedWorktree.path
                 before == terminalsByWorktree[p]
                 after == terminalsByWorktree'[p]
             IN  /\ after.terminals = WithoutId(before.terminals, id)
                 /\ after.activeTerminalId =
                       IF before.activeTerminalId = id
                       THEN (IF after.terminals = <<>> THEN NullId
                             ELSE after.terminals[Len(after.terminals)].id)
                       ELSE before.activeTerminalId
       ]_vars

\* C5: addTerminal / addTerminalWithCommand with nothing selected return null
\* and change nothing; with a worktree W selected they issue exactly one spawn,
\* and when it resolves the new session is appended to W's sessions and is W's
\* active session
C5_AddTerminalAppends ==
    [][ /\ ( /\ (AddTerminal \/ \E cmd \in Commands : AddTerminalWithCommand(cmd))
             /\ selectedWorktree = NoWorktree )
           => /\ lastOp'.out = "null"
              /\ UNCHANGED <<sessionVars, backendVars>>
        /\ ( /\ (AddTerminal \/ \E cmd \in Commands : AddTerminalWithCommand(cmd))
             /\ selectedWorktree # NoWorktree )
           => /\ BagCardinality(spawnsInFlight') = BagCardinality(spawnsInFlight) + 1
              /\ UNCHANGED sessionVars
        /\ \A c \in BagToSet(spawnsInFlight) :
             (AddTerminalResolve(c) \/ AddTerminalWithCommandResolve(c))
             => LET p == c.worktree.path
                    new == [id |-> nextTerminalId, worktreePath |-> p]
                IN  /\ SessionsOf(p)' = Append(SessionsOf(p), new)
                    /\ terminalsByWorktree'[p].activeTerminalId = new.id
      ]_vars

\* C6: the step of removeTerminal(id) that dispatches close_terminal also
\* removes id locally, and the settling of close_terminal, with success or with
\* failure, changes no session state
C6_CloseFailureNeverReverts ==
    [][ /\ \A id \in SpawnedIds :
             RemoveTerminal(id)
             => /\ closePending' = closePending + 1
                /\ id \notin TerminalIdsOf(currentTerminals')
                /\ selectedWorktree # NoWorktree
                   => id \notin TerminalIdsOf(SessionsOf(selectedWorktree.path)')
        /\ closePending' < closePending => UNCHANGED sessionVars
      ]_vars

\* C6 witness: close_terminal failed after a session of the selected worktree
\* was removed, and the session is still gone
C6_Witness ==
    /\ lastOp = Op("close_terminal", "logged")
    /\ selectedWorktree # NoWorktree
    /\ \E id \in SpawnedIds :
          /\ id \notin TerminalIdsOf(currentTerminals)
          /\ \A p \in DOMAIN terminalsByWorktree :
                id \notin TerminalIdsOf(terminalsByWorktree[p].terminals)

\* ids of the sessions held by some entry of terminalsByWorktree
RecordedIds ==
    UNION {TerminalIdsOf(terminalsByWorktree[p].terminals) : p \in DOMAIN terminalsByWorktree}

\* the session operations without removeTerminal: no close_terminal is ever
\* issued
SpawnsNext ==
    \/ \E w \in WorktreeInputs : SelectWorktree(w)
    \/ \E c \in BagToSet(spawnsInFlight) : SelectWorktreeResolve(c)
    \/ AddTerminal
    \/ \E cmd \in Commands : AddTerminalWithCommand(cmd)
    \/ \E c \in BagToSet(spawnsInFlight) : AddTerminalResolve(c)
    \/ \E c \in BagToSet(spawnsInFlight) : AddTerminalWithCommandResolve(c)
    \/ \E c \in BagToSet(spawnsInFlight) : SpawnReject(c)
    \/ \E id \in SpawnedIds : SetActiveTerminal(id)

SpecSpawns == Init /\ [][SpawnsNext]_vars

\* C22: as long as no close_terminal has been issued, when no spawn is awaited
\* every terminal id the backend has returned is held by the session list of
\* some entry of terminalsByWorktree
C22_NoLeakedTerminal ==
    spawnsInFlight = EmptyBag => SpawnedIds \subseteq RecordedIds

\* C25: setActiveTerminal(id) leaves the backend and the calls in flight as
\* they were, and leaves the session state as it was when no worktree is
\* selected or id is not one of the selected worktree's sessions
C25_SetActiveUnknownIsNoop ==
    [][\A id \in SpawnedIds :
          SetActiveTerminal(id) =>
             /\ UNCHANGED backendVars
             /\ (\/ selectedWorktree = NoWorktree
                 \/ id \notin TerminalIdsOf(
                        SpreadEntry(terminalsByWorktree, selectedWorktree.path, id).terminals))
                   => UNCHANGED sessionVars
      ]_vars

\* C28: when the spawn of selectWorktree(A) resolves while another worktree B
\* is selected, A's entry becomes the one spawned session with that session
\* active, and B's entry, like every other entry, stays as it was
C28_RacedSelectFilesUnderItsOwn ==
    [][\A c \in BagToSet(spawnsInFlight) :
          (/\ lastOp' = Op("selectWorktree", "resolved")
           /\ c.op = "selectWorktree"
           /\ CopiesIn(c, spawnsInFlight') < CopiesIn(c, spawnsInFlight)
           /\ selectedWorktree # NoWorktree
           /\ selectedWorktree.path # c.worktree.path
           /\ selectedWorktree.path \in DOMAIN terminalsByWorktree)
            => /\ c.worktree.path \in DOMAIN terminalsByWorktree'
               /\ terminalsByWorktree'[c.worktree.path] =
                     [terminals |-> <<TerminalInstance(nextTerminalId, c.worktree)>>,
                      activeTerminalId |-> nextTerminalId]
               /\ DOMAIN terminalsByWorktree' = DOMAIN terminalsByWorktree \cup {c.worktree.path}
               /\ \A p \in DOMAIN terminalsByWorktree :
                     p # c.worktree.path => terminalsByWorktree'[p] = terminalsByWorktree[p]
      ]_vars

\* C28 witness: wB's selection completed first (session 1), then the spawn of
\* the selection of wA resolved (session 2)
C28_Witness ==
    /\ lastOp = Op("selectWorktree", "resolved")
    /\ selectedWorktree.path = "wA"
    /\ DOMAIN terminalsByWorktree = {"wA", "wB"}
    /\ TerminalIdsOf(terminalsByWorktree["wB"].terminals) = {1}
    /\ TerminalIdsOf(terminalsByWorktree["wA"].terminals) = {2}
    /\ terminalsByWorktree["wA"].activeTerminalId = 2

----------------------------------------------------------------------------
\* The sidebar: selecting worktrees of the registry while repositories are
\* removed and worktrees are listed, created and deleted

\* the worktrees the sidebar renders, each handed to selectWorktree on click
ListedWorktrees ==
    UNION {SeqRange(repositories[i].worktrees) : i \in 1..Len(repositories)}

SidebarNext ==
    \/ \E w \in ListedWorktrees : SelectWorktree(w)
    \/ \E c \in BagToSet(spawnsInFlight) : SelectWorktreeResolve(c)
    \/ \E c \in BagToSet(spawnsInFlight) : SpawnReject(c)
    \/ \E path \in RepoPaths : RemoveRepository(path)
    \/ \E ok \in BOOLEAN : SaveSettle(ok)
    \/ \E repoPath \in RepoPaths : RefreshWorktrees(repoPath)
    \/ \E c \in BagToSet(registryCalls) : WorktreesListed(c)
    \/ \E repoPath \in RepoPaths : CreateWorktreeAuto(repoPath)
    \/ \E c \in BagToSet(registryCalls) : WorktreeCreated(c)
    \/ \E repoPath \in RepoPaths, name \in WorktreeNames : DeleteWorktree(repoPath, name)
    \/ \E c \in BagToSet(registryCalls) : WorktreeDeleted(c)
    \/ \E c \in BagToSet(registryCalls) : RegistryCallReject(c)

SpecSidebar == InitWorktrees /\ [][SidebarNext]_vars

\* C23: a selected worktree is listed under some repository of the registry
C23_SelectionInRegistry ==
    selectedWorktree # NoWorktree
        => selectedWorktree.path \in {w.path : w \in ListedWorktrees}

\* C31: every session held by the entry of a worktree was spawned for that
\* worktree
C31_SessionsBelongToTheirEntry ==
    \A p \in DOMAIN terminalsByWorktree :
        \A i \in 1..Len(terminalsByWorktree[p].terminals) :
            terminalsByWorktree[p].terminals[i].worktreePath = p

\* C32: while a worktree is selected it has an entry, and currentTerminals and
\* currentActiveTerminalId are that entry's terminals and activeTerminalId
C32_VisibleSetMirrorsEntry ==
    selectedWorktree # NoWorktree
        => /\ selectedWorktree.path \in DOMAIN terminalsByWorktree
           /\ currentTerminals = terminalsByWorktree[selectedWorktree.path].terminals
           /\ currentActiveTerminalId =
                 terminalsByWorktree[selectedWorktree.path].activeTerminalId

----------------------------------------------------------------------------
\* Two selections in a row: selectWorktree(wA) on the fresh store, then
\* selectWorktree(wB) while the spawn of the first is awaited. Neither worktree
\* has sessions when it is selected, so each call goes on to its spawn

SelectCall(path) ==
    [op |-> "selectWorktree", worktree |-> [path |-> path, branch |-> "main"],
     command |-> NULL]

SelectionRaceNext ==
    \/ /\ selectedWorktree = NoWorktree
       /\ spawnsInFlight = EmptyBag
       /\ nextTerminalId = 1
       /\ SelectWorktreeSpawn([path |-> "wA", branch |-> "main"])
    \/ /\ BagIn(SelectCall("wA"), spawnsInFlight)
       /\ SelectWorktreeSpawn([path |-> "wB", branch |-> "main"])
    \/ \E c \in BagToSet(spawnsInFlight) : SelectWorktreeResolve(c)
    \/ AddTerminal
    \/ \E c \in BagToSet(spawnsInFlight) : AddTerminalResolve(c)
    \/ \E c \in BagToSet(spawnsInFlight) : SpawnReject(c)
    \/ \E id \in SpawnedIds : RemoveTerminal(id)
    \/ \E ok \in BOOLEAN : CloseSettle(ok)
    \/ \E id \in SpawnedIds : SetActiveTerminal(id)

SpecSelectionRace == Init /\ [][SelectionRaceNext]_vars

\* C33: once the spawn of selectWorktree(wA) and the spawn of the later
\* selectWorktree(wB) have both resolved, wB is the selected worktree
C33_LastSelectionWins ==
    (/\ {"wA", "wB"} \subseteq DOMAIN terminalsByWorktree
     /\ ~BagIn(SelectCall("wA"), spawnsInFlight)
     /\ ~BagIn(SelectCall("wB"), spawnsInFlight))
        => selectedWorktree.path = "wB"

\* C34: the step of removeTerminal(id), which issues close_terminal(id), leaves
\* id in no entry's session list and out of currentTerminals
C34_ClosedSessionIsForgotten ==
    [][\A id \in SpawnedIds :
          RemoveTerminal(id)
             => /\ closePending' = closePending + 1
                /\ id \notin RecordedIds'
                /\ id \notin TerminalIdsOf(currentTerminals')
      ]_vars

----------------------------------------------------------------------------
\* useCodeReview when the view is handed another worktree

\* the worktree selected after ReviewedWorktree
OtherWorktree == "wB"

\* the view is rendered with another worktreePath: worktreePathRef.current
\* follows it, fetchChangedFiles is made anew and the effect on it calls it:
\* setIsLoading(true); setError(null); await invoke(command, { worktreePath }).
\* No line of the hook touches diffCache or loadingDiffs here
WorktreePathChanged(path) ==
    /\ path # worktreePathRef
    /\ listingFetches < MaxListingFetches
    /\ worktreePathRef' = path
    /\ isLoading' = TRUE
    /\ error' = NULL
    /\ listingFetches' = listingFetches + 1
    /\ effectsPending' = TRUE
    /\ LoaderOp("useCodeReview", "worktreePath")
    /\ UNCHANGED <<diffCache, loadingDiffs, renderedDiffCache, renderedLoadingDiffs,
                   diffFetches, inFlightAtClear, changedFiles, changedFilesDirty,
                   loaderVars>>

\* the view of ReviewedWorktree, and one selection of OtherWorktree
ReviewSwitchNext ==
    \/ DiffLoaderNext
    \/ /\ worktreePathRef = ReviewedWorktree
       /\ WorktreePathChanged(OtherWorktree)

SpecReviewSwitch == InitDiffLoader /\ [][ReviewSwitchNext]_vars

\* C36: a diff that getDiff(path) of a finished render returns was fetched for
\* the worktree the hook is given in that render
C36_DiffsOfTheCurrentWorktree ==
    ~effectsPending
        => \A path \in DOMAIN renderedDiffCache :
              renderedDiffCache[path] # EmptyDiff(path)
                 => renderedDiffCache[path] = FileDiffData(worktreePathRef, path)

\* C37: a fetch that was in flight when the diff cache was cleared writes
\* nothing into the cleared cache when it settles
C37_FetchBeforeClearWritesNothing ==
    [][\A f \in BagToSet(diffFetches), ok \in BOOLEAN :
          (LoaderDiffSettled(f, ok) /\ inFlightAtClear' # inFlightAtClear)
             => f.filePath \notin DOMAIN diffCache'
      ]_vars

----------------------------------------------------------------------------
\* useGitWatcher: events while the hook is mounted and its listener effect
\* runs again

\* a 'git-head-changed' event that every listener subscribed to it drops at
\* if (!mounted) return
GitHeadChangedDropped(worktreePath) ==
    /\ ~ListenerMounted("git-head-changed")
    /\ EventSeen("branch", worktreePath)
    /\ WatcherOp("git-head-changed", "dropped")
    /\ UNCHANGED <<now, watcherMounted, pendingBranchUpdates, pendingWorktreeUpdates,
                   timers, registryCalls>>

\* a 'worktree-changed' event that every listener subscribed to it drops
WorktreeChangedDropped(repoPath) ==
    /\ ~ListenerMounted("worktree-changed")
    /\ EventSeen("worktree", repoPath)
    /\ WatcherOp("worktree-changed", "dropped")
    /\ UNCHANGED <<now, watcherMounted, pendingBranchUpdates, pendingWorktreeUpdates,
                   timers, registryCalls>>

\* the worktree and the repository the backend reports changes of
EventKeys == {<<"branch", "wA">>, <<"worktree", "r1">>}

\* the watcher subscribed and never torn down: events of EventKeys, the
\* timers, the clock, the answers of the collaborator and re-runs of the
\* listener effect
ListenersNext ==
    \/ GitHeadChanged("wA")
    \/ GitHeadChangedDropped("wA")
    \/ WorktreeChanged("r1")
    \/ WorktreeChangedDropped("r1")
    \/ \E t \in timers : BranchTimerFired(t)
    \/ \E t \in timers : WorktreeTimerFired(t)
    \/ \E c \in BagToSet(registryCalls) : BranchNameResolved(c)
    \/ \E c \in BagToSet(registryCalls) : WorktreesListed(c)
    \/ \E c \in BagToSet(registryCalls) : RegistryCallReject(c)
    \/ ListenerEffectRerun
    \/ Tick

\* time passes, a timer whose delay elapsed runs its callback, and the
\* collaborator answers every call
SpecListeners ==
    /\ InitWatcher
    /\ [][ListenersNext]_vars
    /\ WF_vars(Tick)
    /\ WF_vars(\E t \in timers : BranchTimerFired(t))
    /\ WF_vars(\E t \in timers : WorktreeTimerFired(t))
    /\ WF_vars(\E c \in BagToSet(registryCalls) : BranchNameResolved(c))
    /\ WF_vars(\E c \in BagToSet(registryCalls) : WorktreesListed(c))

\* an event of k, whose delay ends within the time modelled, has not been
\* followed by its store call
CallAwaited(k) ==
    /\ k \in DOMAIN callsSinceEvent
    /\ callsSinceEvent[k].events > 0
    /\ callsSinceEvent[k].calls = 0
    /\ callsSinceEvent[k].at + DebounceMs(k[1]) <= MaxWatcherTime

\* C38: while the hook is subscribed and not torn down, every git-head-changed
\* event of a worktree is eventually followed by an updateWorktreeBranch call
\* for it, and every worktree-changed event of a repository by a
\* refreshWorktrees call for it
C38_EveryEventGetsItsCall ==
    \A k \in EventKeys : CallAwaited(k) ~> ~CallAwaited(k)

----------------------------------------------------------------------------
\* updateWorktreeBranch calls in flight together while git moves on

\* the branches checked out in a worktree one after the other, never one again
BranchOrder == <<"main", "feat", "fix">>

Rank(branch) == CHOOSE i \in 1..Len(BranchOrder) : BranchOrder[i] = branch

\* the collaborator has read the branch for every call in flight: it reads
\* when the request reaches it, so a later request never carries an older
\* branch than an earlier one
AllRead == \A c \in BagToSet(registryCalls) : c.phase = "answered"

\* the branch the registry shows for a worktree
RegistryBranch(worktreePath) ==
    LET found == {wt \in UNION {{repositories[i].worktrees[k] :
                                    k \in 1..Len(repositories[i].worktrees)} :
                                i \in 1..Len(repositories)} : wt.path = worktreePath}
    IN (CHOOSE wt \in found : TRUE).branch

ResponseOrderNext ==
    \/ /\ AllRead
       /\ UpdateWorktreeBranch("wA")
    \/ /\ AllRead
       /\ UpdateWorktreeBranch("wC")
    \/ \E c \in BagToSet(registryCalls) : BranchNameRead(c)
    \/ \E c \in BagToSet(registryCalls) : c.phase = "answered" /\ BranchNameResolved(c)
    \/ /\ AllRead
       /\ \E branch \in {"feat", "fix"} :
             /\ Rank(branch) > Rank(GitBranchOf("wA"))
             /\ ExternalCheckout("r1", "wA", branch)
    \/ /\ AllRead
       /\ \E branch \in {"feat", "fix"} :
             /\ Rank(branch) > Rank(GitBranchOf("wC"))
             /\ ExternalCheckout("r2", "wC", branch)

SpecResponseOrder == InitWorktrees /\ [][ResponseOrderNext]_vars

\* C39: when the responses of two updateWorktreeBranch calls for one worktree
\* arrive in reverse order, the registry keeps the result of the later call:
\* once it shows the branch git has checked out, a response that arrives
\* leaves it showing that branch
C39_LaterRequestWins ==
    [][\A c \in BagToSet(registryCalls) :
          (/\ c.phase = "answered"
           /\ BranchNameResolved(c)
           /\ RegistryBranch(c.path) = GitBranchOf(c.path))
              => RegistryBranch(c.path)' = GitBranchOf(c.path)
      ]_vars

----------------------------------------------------------------------------
\* the DiffLoader when the listing stops changing

\* a step that asks for the listing again or brings one
ListingChange ==
    \/ Refresh
    \/ GitIndexChanged
    \/ \E files \in Listings : ListingFetched(files)
    \/ ListingFailed

\* React renders a component whose state changed, and the collaborator
\* resolves or rejects every listing call and every diff fetch
SpecDrain ==
    /\ InitDiffLoader
    /\ [][DiffLoaderNext]_vars
    /\ WF_vars(ViewRender)
    /\ WF_vars(\E f \in BagToSet(diffFetches), ok \in BOOLEAN : LoaderDiffSettled(f, ok))
    /\ WF_vars((\E files \in Listings : ListingFetched(files)) \/ ListingFailed)

\* every path of the listing has a diff-cache entry, nothing is loading and
\* no fetch is in flight
Drained ==
    /\ \A i \in 1..Len(changedFiles) : changedFiles[i] \in DOMAIN diffCache
    /\ loadingDiffs = {}
    /\ diffFetches = EmptyBag

\* C40: when the listing stays fixed from some moment on, the loader
\* eventually reaches a state where every path of it is cached, the loading
\* set is empty and no fetch is in flight
C40_BacklogDrains ==
    \/ []<><<ListingChange>>_vars
    \/ []<>Drained

====
